---- MODULE Spec2Model ----
(***************************************************************************)
(* The aggregator of console-subscriber (src/aggregator.rs): the event     *)
(* reducer, the dirty-tracked IdData tables, instrument and task-details   *)
(* subscriptions, publish, the retention pass and the run loop, together   *)
(* with the producers (event channel, Flush::trigger) and the clients      *)
(* (rpc channel, bounded per-watcher queues) that surround it.             *)
(***************************************************************************)
EXTENDS Integers, Sequences, FiniteSets, Bags, TLC

\* ------------------------------------------------------------------ bounds

\* span ids handed out by the producers are 1..MaxId
MaxId == 2
\* capacity of the bounded event channel
MaxQueue == 1
\* number of events the producers emit in one run
MaxEvents == 3
\* number of subscriptions the clients open in one run
MaxSubs == 2
\* largest per-watcher queue capacity a client asks for
MaxCap == 2
\* the clock runs TimeSlack past the retention window
TimeSlack == 1
\* the retention the embedder configures
Retention == 0
\* scenario S5: the retention, and when task 1 is spawned and closed
S5Retention == 10
S5SpawnAt == 0
S5CloseAt == 1
\* width of the unsigned counters (u64 in the source, narrowed for checking)
CounterBits == 6

\* number of events a producer of the reducer specification records
MaxRecorded == 5
\* the latest timestamp such an event carries
MaxTime == 1

\* the larger of the two amounts a numeric attribute update carries
MaxAttrVal == 3

Ids == 1 .. MaxId
Caps == 1 .. MaxCap
Wids == 1 .. MaxSubs
Producers == {1, 2}
\* the clients of the details specification: one more than the instrument clients
DetailWids == 1 .. MaxSubs + 1
\* the buffer sizes a details request asks for
DetailBuffers == {0, 1}

\* Option::None for timestamps, ids and meta ids
None == -1

RECURSIVE Pow2(_)
Pow2(n) == IF n = 0 THEN 1 ELSE 2 * Pow2(n - 1)
U64Modulus == Pow2(CounterBits)
U64Max == U64Modulus - 1

Range(f) == {f[x] : x \in DOMAIN f}

\* ------------------------------------------------------------------ state

VARIABLES
    \* Aggregator fields
    events,            \* mpsc::Receiver<Event>: the buffered events
    events_closed,     \* every event Sender was dropped
    rpcs,              \* mpsc::Receiver<WatchKind>: the buffered requests
    rpcs_closed,       \* every rpc Sender was dropped
    retention,
    triggered,         \* flush_capacity.triggered
    permit,            \* flush_capacity.should_flush holds a stored wake
    watchers,          \* Vec<Watch<InstrumentUpdate>>, as watcher ids
    details_watchers,  \* HashMap<span::Id, Vec<Watch<TaskDetails>>>
    all_metadata,
    new_metadata,
    tasks, task_stats, resources, resource_stats,
    async_ops, async_op_stats, resource_ops,
    \* position of Aggregator::run
    pc,                \* "select" "flushed" "drain" "publish" "cleanup" "done" "panicked"
    should_send,
    woken_by,          \* the select! arm taken in this iteration
    \* environment
    now,               \* SystemTime::now()
    overflow_checks,   \* the build panics on integer overflow (debug) or wraps
    produced,          \* events emitted so far
    script,            \* events a scripted producer has still to emit
    trig_pc,           \* per producer: position inside Flush::trigger
    chan,              \* per watcher id: the bounded queue behind a Watch
    last_update        \* the InstrumentUpdate built in this iteration

aggVars == <<watchers, details_watchers, all_metadata, new_metadata,
             tasks, task_stats, resources, resource_stats,
             async_ops, async_op_stats, resource_ops>>
tableVars == <<tasks, task_stats, resources, resource_stats,
               async_ops, async_op_stats, resource_ops>>
flushVars == <<triggered, permit, trig_pc>>
vars == <<events, events_closed, rpcs, rpcs_closed, retention, triggered, permit,
          watchers, details_watchers, all_metadata, new_metadata,
          tasks, task_stats, resources, resource_stats,
          async_ops, async_op_stats, resource_ops,
          pc, should_send, woken_by, now, overflow_checks, produced, script,
          trig_pc, chan, last_update>>

\* ----------------------------------------------------------- default rows

PollStatsDefault ==
    [current_polls |-> 0, polls |-> 0, first_poll |-> None,
     last_poll_started |-> None, last_poll_ended |-> None, busy_time |-> 0]

TaskStatsDefault ==
    [created_at |-> None, closed_at |-> None, wakes |-> 0, waker_clones |-> 0,
     waker_drops |-> 0, last_wake |-> None,
     poll_times_histogram |-> EmptyBag, poll_stats |-> PollStatsDefault]

ResourceStatsDefault ==
    [created_at |-> None, closed_at |-> None, attributes |-> <<>>]

AsyncOpStatsDefault ==
    [created_at |-> None, closed_at |-> None, latest_poll_op |-> None,
     resource_id |-> None, task_id |-> None, poll_stats |-> PollStatsDefault]

\* ------------------------------------------------------------------ IdData
\* An IdData<T> is a function from the ids it holds to [data, dirty].

EmptyIdData == <<>>

\* an insert that forgets to mark the row dirty
IdData_insert_clean(t, id, data) ==
    [i \in DOMAIN t \cup {id} |->
        IF i = id THEN [data |-> data, dirty |-> FALSE] ELSE t[i]]

IdData_insert(t, id, data) ==
    [i \in DOMAIN t \cup {id} |->
        IF i = id THEN [data |-> data, dirty |-> TRUE] ELSE t[i]]

\* since_last_update: the dirty rows, whose bit the iteration clears
IdData_dirty_ids(t) == {i \in DOMAIN t : t[i].dirty}

\* a since_last_update that leaves the dirty bits set
IdData_clear_none(t) == t

IdData_clear(t) == [i \in DOMAIN t |-> [t[i] EXCEPT !.dirty = FALSE]]

IdData_all(t) == DOMAIN t

IdData_get(t, id) == IF id \in DOMAIN t THEN t[id].data ELSE None

\* an as_proto that renders the dirty rows whatever it is asked for
IdData_as_proto_ids_dirty(t, updated_only) == IdData_dirty_ids(t)

\* an as_proto that clears the dirty bits whatever it is asked for
IdData_as_proto_after_clearing(t, updated_only) == IdData_clear(t)

\* as_proto: the ids rendered into the message
IdData_as_proto_ids(t, updated_only) ==
    IF updated_only THEN IdData_dirty_ids(t) ELSE IdData_all(t)

\* as_proto: the table it leaves behind
IdData_as_proto_after(t, updated_only) ==
    IF updated_only THEN IdData_clear(t) ELSE t

\* ------------------------------------------------------------- wire forms

total_time(created_at, closed_at) ==
    IF closed_at = None \/ created_at = None THEN None
    ELSE IF closed_at >= created_at THEN closed_at - created_at ELSE None

PollStats_to_proto(ps) ==
    [polls |-> ps.polls, first_poll |-> ps.first_poll,
     last_poll_started |-> ps.last_poll_started,
     last_poll_ended |-> ps.last_poll_ended, busy_time |-> ps.busy_time]

Task_to_proto(t) ==
    [id |-> t.id, kind |-> "Spawn", metadata |-> t.metadata, fields |-> t.fields]

TaskStats_to_proto(s) ==
    [poll_stats |-> PollStats_to_proto(s.poll_stats),
     created_at |-> s.created_at,
     total_time |-> total_time(s.created_at, s.closed_at),
     wakes |-> s.wakes, waker_clones |-> s.waker_clones,
     waker_drops |-> s.waker_drops, last_wake |-> s.last_wake]

Resource_to_proto(r) ==
    [id |-> r.id, kind |-> r.kind, metadata |-> r.metadata,
     concrete_type |-> r.concrete_type]

AttrValue_to_proto(a) ==
    IF a.tag = "Text" THEN [text |-> a.text]
    ELSE [val |-> a.val, unit |-> a.unit]

\* attributes.values(): the names are not sent, the values are, in any order
ResourceStats_to_proto(s) ==
    LET wire == [k \in DOMAIN s.attributes |-> AttrValue_to_proto(s.attributes[k])]
    IN [created_at |-> s.created_at,
        total_time |-> total_time(s.created_at, s.closed_at),
        attributes |-> [v \in Range(wire) |->
                            Cardinality({k \in DOMAIN wire : wire[k] = v})]]

AsyncOp_to_proto(a) ==
    [id |-> a.id, metadata |-> a.metadata, source |-> a.source]

AsyncOpStats_to_proto(s) ==
    [poll_stats |-> PollStats_to_proto(s.poll_stats),
     created_at |-> s.created_at,
     total_time |-> total_time(s.created_at, s.closed_at),
     latest_poll_op |-> s.latest_poll_op,
     resource_id |-> s.resource_id, task_id |-> s.task_id]

ResourceOp_to_proto(o) ==
    [id |-> o.id, metadata |-> o.metadata, op_type |-> o.op_type,
     resource_id |-> o.resource_id, name |-> o.op_name]

\* ------------------------------------------------------------ u64 counters
\* An arithmetic step either yields a value or aborts the task: with overflow
\* checks (a debug build) an overflow panics, without them it wraps.

u64_add(a, b, checks) ==
    IF a + b >= U64Modulus
    THEN [ok |-> ~checks, val |-> (a + b) % U64Modulus]
    ELSE [ok |-> TRUE, val |-> a + b]

u64_sub(a, b, checks) ==
    IF b > a
    THEN [ok |-> ~checks, val |-> (a + U64Modulus - b) % U64Modulus]
    ELSE [ok |-> TRUE, val |-> a - b]

Ok(row) == [ok |-> TRUE, row |-> row]
Panic(row) == [ok |-> FALSE, row |-> row]

\* the row an Updating guard hands out: the one held under id, or the default
\* that update_or_default puts there
IdData_row(t, id, default) == IF id \in DOMAIN t THEN t[id].data ELSE default

\* an update that changes the row and leaves its dirty bit as it was
IdData_update_keeps_bit(t, id, r) ==
    IF id \in DOMAIN t
    THEN [ok |-> r.ok,
          t |-> IF r.ok
                THEN [t EXCEPT ![id] = [data |-> r.row, dirty |-> t[id].dirty]]
                ELSE t]
    ELSE [ok |-> TRUE, t |-> t]

\* an update that puts a row under an id the table does not hold
IdData_update_inserts(t, id, r) ==
    [ok |-> r.ok,
     t |-> IF r.ok
           THEN [i \in DOMAIN t \cup {id} |->
                    IF i = id THEN [data |-> r.row, dirty |-> TRUE] ELSE t[i]]
           ELSE t]

\* update(&id): the row, if held, becomes r.row and is left dirty by the
\* Updating guard; r is the change applied to the row, which may abort the task
IdData_update(t, id, r) ==
    IF id \in DOMAIN t
    THEN [ok |-> r.ok,
          t |-> IF r.ok
                THEN [t EXCEPT ![id] = [data |-> r.row, dirty |-> TRUE]]
                ELSE t]
    ELSE [ok |-> TRUE, t |-> t]

\* update_or_default(id): as update, on the default row when none is held
IdData_update_or_default(t, id, r) ==
    [ok |-> r.ok,
     t |-> IF r.ok
           THEN [i \in DOMAIN t \cup {id} |->
                    IF i = id THEN [data |-> r.row, dirty |-> TRUE] ELSE t[i]]
           ELSE t]

\* ---------------------------------------------------------- event reducer

\* an Enter that counts a poll at every nesting depth
PollStats_enter_counts_nested(s, at, checks) ==
    LET ps == s.poll_stats
        outer == ps.current_polls = 0
        polls == u64_add(ps.polls, 1, checks)
        cur == u64_add(ps.current_polls, 1, checks)
    IN IF ~polls.ok \/ ~cur.ok THEN Panic(s)
       ELSE Ok([s EXCEPT !.poll_stats =
                   [ps EXCEPT
                      !.last_poll_started = IF outer THEN at ELSE @,
                      !.first_poll = IF outer /\ @ = None THEN at ELSE @,
                      !.polls = polls.val,
                      !.current_polls = cur.val]])

\* Event::Enter on one stats row (task_stats and async_op_stats alike)
PollStats_enter(s, at, checks) ==
    LET ps == s.poll_stats
        outer == ps.current_polls = 0
        polls == IF outer THEN u64_add(ps.polls, 1, checks)
                 ELSE [ok |-> TRUE, val |-> ps.polls]
        cur == u64_add(ps.current_polls, 1, checks)
    IN IF ~polls.ok \/ ~cur.ok THEN Panic(s)
       ELSE Ok([s EXCEPT !.poll_stats =
                   [ps EXCEPT
                      !.last_poll_started = IF outer THEN at ELSE @,
                      !.first_poll = IF outer /\ @ = None THEN at ELSE @,
                      !.polls = polls.val,
                      !.current_polls = cur.val]])

\* Event::Exit on one stats row; only a task row has a histogram
PollStats_exit(s, at, checks, has_histogram) ==
    LET ps == s.poll_stats
        cur == u64_sub(ps.current_polls, 1, checks)
    IN IF ~cur.ok THEN Panic(s)
       ELSE IF cur.val = 0 /\ ps.last_poll_started # None
       THEN IF at < ps.last_poll_started
            THEN Panic(s)      \* at.duration_since(last_poll_started).unwrap()
            ELSE LET elapsed == at - ps.last_poll_started
                     s1 == [s EXCEPT !.poll_stats =
                              [ps EXCEPT !.current_polls = cur.val,
                                         !.last_poll_ended = at,
                                         !.busy_time = @ + elapsed]]
                 IN Ok(IF has_histogram
                       THEN [s1 EXCEPT !.poll_times_histogram =
                                          @ (+) SetToBag({elapsed})]
                       ELSE s1)
       ELSE Ok([s EXCEPT !.poll_stats.current_polls = cur.val])

Stats_close(s, at) == Ok([s EXCEPT !.closed_at = at])

\* a waker count that takes wake_by_ref for a drop as well
TaskStats_waker_by_ref_drops(s, op, at, checks) ==
    IF op \in {"Wake", "WakeByRef"}
    THEN LET w == u64_add(s.wakes, 1, checks)
             d == u64_add(s.waker_drops, 1, checks)
         IN IF ~w.ok \/ ~d.ok THEN Panic(s)
            ELSE Ok([s EXCEPT !.wakes = w.val, !.last_wake = at,
                              !.waker_drops = d.val])
    ELSE IF op = "Clone"
    THEN LET c == u64_add(s.waker_clones, 1, checks)
         IN IF c.ok THEN Ok([s EXCEPT !.waker_clones = c.val]) ELSE Panic(s)
    ELSE LET d == u64_add(s.waker_drops, 1, checks)
         IN IF d.ok THEN Ok([s EXCEPT !.waker_drops = d.val]) ELSE Panic(s)

TaskStats_waker(s, op, at, checks) ==
    IF op \in {"Wake", "WakeByRef"}
    THEN LET w == u64_add(s.wakes, 1, checks)
             d == IF op = "Wake" THEN u64_add(s.waker_drops, 1, checks)
                  ELSE [ok |-> TRUE, val |-> s.waker_drops]
         IN IF ~w.ok \/ ~d.ok THEN Panic(s)
            ELSE Ok([s EXCEPT !.wakes = w.val, !.last_wake = at,
                              !.waker_drops = d.val])
    ELSE IF op = "Clone"
    THEN LET c == u64_add(s.waker_clones, 1, checks)
         IN IF c.ok THEN Ok([s EXCEPT !.waker_clones = c.val]) ELSE Panic(s)
    ELSE LET d == u64_add(s.waker_drops, 1, checks)
         IN IF d.ok THEN Ok([s EXCEPT !.waker_drops = d.val]) ELSE Panic(s)

\* an update that lets an attribute take the type of the update
AttrValue_update_retypes(attr, upd, checks) ==
    IF attr.tag = "Numeric" /\ upd.tag = "Numeric"
    THEN LET r == CASE upd.op = "Add" -> u64_add(attr.val, upd.val, checks)
                    [] upd.op = "Sub" -> u64_sub(attr.val, upd.val, checks)
                    [] OTHER -> [ok |-> TRUE, val |-> upd.val]
         IN IF r.ok THEN Ok([attr EXCEPT !.val = r.val]) ELSE Panic(attr)
    ELSE IF upd.tag = "Text"
    THEN Ok([tag |-> "Text", text |-> upd.text])
    ELSE Ok([tag |-> "Numeric", val |-> upd.val, unit |-> upd.unit])

\* AttrValue::update
AttrValue_update(attr, upd, checks) ==
    IF attr.tag = "Text" /\ upd.tag = "Text"
    THEN Ok([attr EXCEPT !.text = upd.text])
    ELSE IF attr.tag = "Numeric" /\ upd.tag = "Numeric"
    THEN LET r == CASE upd.op = "Add" -> u64_add(attr.val, upd.val, checks)
                    [] upd.op = "Sub" -> u64_sub(attr.val, upd.val, checks)
                    [] OTHER -> [ok |-> TRUE, val |-> upd.val]
         IN IF r.ok THEN Ok([attr EXCEPT !.val = r.val]) ELSE Panic(attr)
    ELSE Panic(attr)   \* "trying to update attributes of different type"

\* From<AttributeUpdateValue> for AttrValue
AttrValue_from(upd) ==
    IF upd.tag = "Text" THEN [tag |-> "Text", text |-> upd.text]
    ELSE [tag |-> "Numeric", val |-> upd.val, unit |-> upd.unit]

\* the loop over attr_updates of OpType::StateUpdate on one resource row
RECURSIVE ResourceStats_state_update(_, _, _)
ResourceStats_state_update(s, updates, checks) ==
    IF updates = <<>> THEN Ok(s)
    ELSE LET upd == Head(updates)
             attrs == s.attributes
         IN IF upd.name \in DOMAIN attrs
            THEN LET r == AttrValue_update(attrs[upd.name], upd.val, checks)
                 IN IF r.ok
                    THEN ResourceStats_state_update(
                             [s EXCEPT !.attributes = [attrs EXCEPT ![upd.name] = r.row]],
                             Tail(updates), checks)
                    ELSE Panic(s)
            ELSE ResourceStats_state_update(
                     [s EXCEPT !.attributes =
                         [k \in DOMAIN attrs \cup {upd.name} |->
                             IF k = upd.name THEN AttrValue_from(upd.val) ELSE attrs[k]]],
                     Tail(updates), checks)

\* OpType::Poll on the async op's stats row
AsyncOpStats_poll(s, event, checks) ==
    LET polls == u64_add(s.poll_stats.polls, 1, checks)
    IN IF ~polls.ok THEN Panic(s)
       ELSE Ok([s EXCEPT
                  !.poll_stats.polls = polls.val,
                  !.latest_poll_op = event.metadata,
                  !.task_id = IF @ = None THEN event.op_type.task_id ELSE @,
                  !.resource_id = IF @ = None THEN event.resource_id ELSE @,
                  !.poll_stats.first_poll =
                      IF event.op_type.readiness = "Pending" /\ @ = None
                      THEN event.at ELSE @])

Panicked(st) == [st EXCEPT !.panic = TRUE]

\* Aggregator::update_state on the aggregator's data st
update_state(st, event, checks) ==
    CASE event.type = "Metadata" ->
           [st EXCEPT !.all_metadata = Append(@, event.meta),
                      !.new_metadata = Append(@, event.meta)]
      [] event.type = "Spawn" ->
           [st EXCEPT
              !.tasks = IdData_insert(@, event.id,
                  [id |-> event.id, metadata |-> event.metadata,
                   fields |-> event.fields]),
              !.task_stats = IdData_insert(@, event.id,
                  [TaskStatsDefault EXCEPT !.created_at = event.at])]
      [] event.type = "Enter" ->
           LET a == IdData_update(st.task_stats, event.id,
                        PollStats_enter(IdData_row(st.task_stats, event.id,
                                                   TaskStatsDefault),
                                        event.at, checks))
               b == IdData_update(st.async_op_stats, event.id,
                        PollStats_enter(IdData_row(st.async_op_stats, event.id,
                                                   AsyncOpStatsDefault),
                                        event.at, checks))
           IN IF ~a.ok THEN Panicked(st)
              ELSE IF ~b.ok THEN Panicked([st EXCEPT !.task_stats = a.t])
              ELSE [st EXCEPT !.task_stats = a.t, !.async_op_stats = b.t]
      [] event.type = "Exit" ->
           LET a == IdData_update(st.task_stats, event.id,
                        PollStats_exit(IdData_row(st.task_stats, event.id,
                                                  TaskStatsDefault),
                                       event.at, checks, TRUE))
               b == IdData_update(st.async_op_stats, event.id,
                        PollStats_exit(IdData_row(st.async_op_stats, event.id,
                                                  AsyncOpStatsDefault),
                                       event.at, checks, FALSE))
           IN IF ~a.ok THEN Panicked(st)
              ELSE IF ~b.ok THEN Panicked([st EXCEPT !.task_stats = a.t])
              ELSE [st EXCEPT !.task_stats = a.t, !.async_op_stats = b.t]
      [] event.type = "Close" ->
           [st EXCEPT
              !.task_stats = IdData_update(@, event.id,
                  Stats_close(IdData_row(@, event.id, TaskStatsDefault),
                              event.at)).t,
              !.resource_stats = IdData_update(@, event.id,
                  Stats_close(IdData_row(@, event.id, ResourceStatsDefault),
                              event.at)).t,
              !.async_op_stats = IdData_update(@, event.id,
                  Stats_close(IdData_row(@, event.id, AsyncOpStatsDefault),
                              event.at)).t]
      [] event.type = "Waker" ->
           LET a == IdData_update(st.task_stats, event.id,
                        TaskStats_waker(IdData_row(st.task_stats, event.id,
                                                   TaskStatsDefault),
                                        event.op, event.at, checks))
           IN IF a.ok THEN [st EXCEPT !.task_stats = a.t] ELSE Panicked(st)
      [] event.type = "Resource" ->
           [st EXCEPT
              !.resources = IdData_insert(@, event.id,
                  [id |-> event.id, kind |-> event.kind,
                   metadata |-> event.metadata,
                   concrete_type |-> event.concrete_type]),
              !.resource_stats = IdData_insert(@, event.id,
                  [ResourceStatsDefault EXCEPT !.created_at = event.at])]
      [] event.type = "ResourceOp" ->
           LET r == IdData_update(st.resource_stats, event.resource_id,
                        ResourceStats_state_update(
                            IdData_row(st.resource_stats, event.resource_id,
                                       ResourceStatsDefault),
                            event.op_type.updates, checks))
               q == IdData_update_or_default(st.async_op_stats,
                        event.op_type.async_op_id,
                        AsyncOpStats_poll(
                            IdData_row(st.async_op_stats, event.op_type.async_op_id,
                                       AsyncOpStatsDefault),
                            event, checks))
               a == IF event.op_type.tag = "StateUpdate"
                    THEN [ok |-> r.ok, st |-> [st EXCEPT !.resource_stats = r.t]]
                    ELSE [ok |-> q.ok, st |-> [st EXCEPT !.async_op_stats = q.t]]
           IN IF ~a.ok THEN Panicked(a.st)
              ELSE [a.st EXCEPT !.resource_ops = IdData_insert(@, event.metadata,
                       [id |-> event.metadata, metadata |-> event.metadata,
                        resource_id |-> event.resource_id,
                        op_name |-> event.op_name, op_type |-> event.op_type])]
      [] event.type = "AsyncResourceOp" ->
           [st EXCEPT
              !.async_ops = IdData_insert(@, event.id,
                  [id |-> event.id, metadata |-> event.metadata,
                   source |-> event.source]),
              !.async_op_stats = IdData_insert(@, event.id,
                  [AsyncOpStatsDefault EXCEPT !.created_at = event.at])]

\* ------------------------------------------------------------- retention

\* a retention test that lets a closed row outlive the retention period
should_drop_late(row, at, keep_for, has_watchers) ==
    LET closed == row.data.closed_at
        closed_for == IF at >= closed THEN at - closed ELSE 0
    IN (row.dirty /\ has_watchers) \/ closed_for > keep_for + 1

\* the should_drop of drop_closed for one closed stats row
should_drop(row, at, keep_for, has_watchers) ==
    LET closed == row.data.closed_at
        \* now.duration_since(*closed).unwrap_or_default()
        closed_for == IF at >= closed THEN at - closed ELSE 0
    IN (row.dirty /\ has_watchers) \/ closed_for > keep_for

\* drop_closed: prune the stats table, then the identities without stats
\* a drop_closed that prunes the stats and forgets the entities
drop_closed_stats_only(at, entities, stats, keep_for, has_watchers) ==
    LET kept == {i \in DOMAIN stats :
                    ~(stats[i].data.closed_at # None
                      /\ should_drop(stats[i], at, keep_for, has_watchers))}
    IN [stats |-> [i \in kept |-> stats[i]], entities |-> entities]

drop_closed(at, entities, stats, keep_for, has_watchers) ==
    LET kept == {i \in DOMAIN stats :
                    stats[i].data.closed_at = None
                    \/ ~should_drop(stats[i], at, keep_for, has_watchers)}
    IN [stats |-> [i \in kept |-> stats[i]],
        entities |-> [i \in DOMAIN entities \cap kept |-> entities[i]]]

\* a cleanup that reclaims the resource ops of the resources it drops
cleanup_closed_cascades(st, at, keep_for) ==
    LET has_watchers == st.watchers # <<>>
        t == drop_closed(at, st.tasks, st.task_stats, keep_for, has_watchers)
        r == drop_closed(at, st.resources, st.resource_stats, keep_for, has_watchers)
        a == drop_closed(at, st.async_ops, st.async_op_stats, keep_for, has_watchers)
        gone == DOMAIN st.resource_stats \ DOMAIN r.stats
    IN [st EXCEPT !.tasks = t.entities, !.task_stats = t.stats,
                  !.resources = r.entities, !.resource_stats = r.stats,
                  !.async_ops = a.entities, !.async_op_stats = a.stats,
                  !.resource_ops =
                      [i \in {j \in DOMAIN @ : @[j].data.resource_id \notin gone}
                          |-> @[i]]]

\* Aggregator::cleanup_closed
cleanup_closed(st, at, keep_for) ==
    LET has_watchers == st.watchers # <<>>
        t == drop_closed(at, st.tasks, st.task_stats, keep_for, has_watchers)
        r == drop_closed(at, st.resources, st.resource_stats, keep_for, has_watchers)
        a == drop_closed(at, st.async_ops, st.async_op_stats, keep_for, has_watchers)
    IN [st EXCEPT !.tasks = t.entities, !.task_stats = t.stats,
                  !.resources = r.entities, !.resource_stats = r.stats,
                  !.async_ops = a.entities, !.async_op_stats = a.stats]

\* ---------------------------------------------------------------- clients

EmptyView ==
    [tasks |-> <<>>, task_stats |-> <<>>, resources |-> <<>>,
     resource_stats |-> <<>>, async_ops |-> <<>>, async_op_stats |-> <<>>,
     resource_ops |-> <<>>, metadata |-> <<>>]

\* a client adds the new identities and overwrites the stats, by id
MergeNew(have, new) ==
    [i \in DOMAIN have \cup {x.id : x \in new} |->
        IF \E x \in new : x.id = i THEN CHOOSE x \in new : x.id = i ELSE have[i]]

MergeStats(have, upd) ==
    [i \in DOMAIN have \cup DOMAIN upd |-> IF i \in DOMAIN upd THEN upd[i] ELSE have[i]]

ApplyUpdate(v, msg) ==
    [tasks |-> MergeNew(v.tasks, msg.new_tasks),
     task_stats |-> MergeStats(v.task_stats, msg.task_stats_update),
     resources |-> MergeNew(v.resources, msg.new_resources),
     resource_stats |-> MergeStats(v.resource_stats, msg.resource_stats_update),
     async_ops |-> MergeNew(v.async_ops, msg.new_async_ops),
     async_op_stats |-> MergeStats(v.async_op_stats, msg.async_op_stats_update),
     resource_ops |-> MergeNew(v.resource_ops, msg.new_resource_ops),
     metadata |-> v.metadata \o msg.new_metadata.metadata]

\* a details client keeps the latest TaskDetails of its task
ApplyDetails(v, msg) == msg

\* ------------------------------------------------------- watchers, publish

\* The queue behind a Watch is held as the number of messages waiting in it
\* (len) and what its client holds once it has applied them all (applied).

\* a try_reserve that does not notice a full queue
Watch_can_send_unbounded(c) == ~c.rx_closed

\* Watch::update: try_reserve succeeds on an open queue with a free slot
Watch_can_send(c) == ~c.rx_closed /\ c.len < c.cap

\* Watch::update: reserve.send(Ok(update.clone()))
Watch_send(c, msg) ==
    [c EXCEPT !.len = @ + 1,
              !.applied = IF c.kind = "Instrument" THEN ApplyUpdate(@, msg)
                          ELSE ApplyDetails(@, msg)]

NoUpdate ==
    [now |-> None, new_metadata |-> [some |-> FALSE, metadata |-> <<>>],
     new_tasks |-> {}, task_stats_update |-> <<>>,
     new_resources |-> {}, resource_stats_update |-> <<>>,
     new_async_ops |-> {}, async_op_stats_update |-> <<>>,
     new_resource_ops |-> {}]

SomeMetadata(list) == [some |-> TRUE, metadata |-> list]
NoMetadata == [some |-> FALSE, metadata |-> <<>>]

\* the InstrumentUpdate both add_instrument_subscription and publish build
InstrumentUpdate(st, updated_only, at, metadata) ==
    [now |-> at,
     new_metadata |-> metadata,
     new_tasks |->
        {Task_to_proto(st.tasks[i].data) :
            i \in IdData_as_proto_ids(st.tasks, updated_only)},
     task_stats_update |->
        [i \in IdData_as_proto_ids(st.task_stats, updated_only) |->
            TaskStats_to_proto(st.task_stats[i].data)],
     new_resources |->
        {Resource_to_proto(st.resources[i].data) :
            i \in IdData_as_proto_ids(st.resources, updated_only)},
     resource_stats_update |->
        [i \in IdData_as_proto_ids(st.resource_stats, updated_only) |->
            ResourceStats_to_proto(st.resource_stats[i].data)],
     new_async_ops |->
        {AsyncOp_to_proto(st.async_ops[i].data) :
            i \in IdData_as_proto_ids(st.async_ops, updated_only)},
     async_op_stats_update |->
        [i \in IdData_as_proto_ids(st.async_op_stats, updated_only) |->
            AsyncOpStats_to_proto(st.async_op_stats[i].data)],
     new_resource_ops |->
        {ResourceOp_to_proto(st.resource_ops[i].data) :
            i \in IdData_as_proto_ids(st.resource_ops, updated_only)}]

\* the seven as_proto calls, as they leave the tables
TablesAfterAsProto(st, updated_only) ==
    [st EXCEPT
       !.tasks = IdData_as_proto_after(@, updated_only),
       !.task_stats = IdData_as_proto_after(@, updated_only),
       !.resources = IdData_as_proto_after(@, updated_only),
       !.resource_stats = IdData_as_proto_after(@, updated_only),
       !.async_ops = IdData_as_proto_after(@, updated_only),
       !.async_op_stats = IdData_as_proto_after(@, updated_only),
       !.resource_ops = IdData_as_proto_after(@, updated_only)]

\* Aggregator::add_instrument_subscription; ch is the queues of all watchers
add_instrument_subscription(st, ch, w, at) ==
    LET update == InstrumentUpdate(st, FALSE, at, SomeMetadata(st.all_metadata))
        st1 == TablesAfterAsProto(st, FALSE)
    IN IF Watch_can_send(ch[w])
       THEN [st |-> [st1 EXCEPT !.watchers = Append(@, w)],
             chan |-> [ch EXCEPT ![w] = Watch_send(@, update)],
             update |-> update]
       ELSE [st |-> st1, chan |-> ch, update |-> update]

\* serialize_histogram(..).ok(): the serialized counts, or nothing
serialize_histogram(histogram) == [some |-> TRUE, counts |-> histogram]

NoDetails == [task_id |-> None, now |-> None, poll_times_histogram |-> [some |-> FALSE, counts |-> EmptyBag]]

TaskDetails(id, at, stats) ==
    [task_id |-> id, now |-> at,
     poll_times_histogram |-> serialize_histogram(stats.poll_times_histogram)]

\* a subscription that registers the watcher of every task it finds, whatever
\* becomes of the two sends
add_task_detail_subscription_registers(st, ch, req, at, rx_gone) ==
    LET w == req.wid
        found == req.id \in DOMAIN st.task_stats
        replied == ch[w].reply = "pending" /\ ~ch[w].rx_closed
        c1 == [ch[w] EXCEPT !.reply = IF replied THEN "sent" ELSE "dropped",
                            !.rx_closed = ~replied \/ rx_gone]
    IN IF ~found
       THEN [st |-> st, chan |-> [ch EXCEPT ![w].reply = "dropped",
                                            ![w].rx_closed = TRUE]]
       ELSE IF req.buffer = 0
       THEN [st |-> Panicked(st), chan |-> ch]
       ELSE [st |-> [st EXCEPT !.details_watchers =
                       [i \in DOMAIN @ \cup {req.id} |->
                           IF i = req.id
                           THEN Append(IF i \in DOMAIN @ THEN @[i] ELSE <<>>, w)
                           ELSE @[i]]],
             chan |-> [ch EXCEPT ![w] =
                          IF replied /\ Watch_can_send(c1)
                          THEN Watch_send(c1,
                                   TaskDetails(req.id, at, st.task_stats[req.id].data))
                          ELSE c1]]

\* Aggregator::add_task_detail_subscription; req is the WatchRequest, and
\* rx_gone tells whether the requester drops the receiving end it is handed
\* before the initial details are sent
add_task_detail_subscription(st, ch, req, at, rx_gone) ==
    LET w == req.wid
        found == req.id \in DOMAIN st.task_stats
        \* stream_sender.send(rx): fails when the requester is gone, and the
        \* receiving end is then dropped with it
        replied == ch[w].reply = "pending" /\ ~ch[w].rx_closed
        c1 == [ch[w] EXCEPT !.reply = IF replied THEN "sent" ELSE "dropped",
                            !.rx_closed = ~replied \/ rx_gone]
    IN IF ~found
       THEN [st |-> st, chan |-> [ch EXCEPT ![w].reply = "dropped",
                                            ![w].rx_closed = TRUE]]
       ELSE IF req.buffer = 0
       THEN [st |-> Panicked(st), chan |-> ch]   \* mpsc::channel(0) panics
       ELSE IF replied /\ Watch_can_send(c1)
       THEN [st |-> [st EXCEPT !.details_watchers =
                       [i \in DOMAIN @ \cup {req.id} |->
                           IF i = req.id
                           THEN Append(IF i \in DOMAIN @ THEN @[i] ELSE <<>>, w)
                           ELSE @[i]]],
             chan |-> [ch EXCEPT ![w] = Watch_send(c1,
                          TaskDetails(req.id, at, st.task_stats[req.id].data))]]
       ELSE [st |-> st, chan |-> [ch EXCEPT ![w] = c1]]

\* Vec::retain(|watch| watch.update(&msg)) over a list of watcher ids
RECURSIVE RetainSent(_, _, _)
RetainSent(ws, ch, msg) ==
    IF ws = <<>> THEN [kept |-> <<>>, chan |-> ch]
    ELSE LET w == Head(ws)
             ok == Watch_can_send(ch[w])
             rest == RetainSent(Tail(ws),
                        IF ok THEN [ch EXCEPT ![w] = Watch_send(@, msg)] ELSE ch,
                        msg)
         IN [kept |-> IF ok THEN <<w>> \o rest.kept ELSE rest.kept,
             chan |-> rest.chan]

\* a retain over details_watchers that leaves the buckets it has emptied
RECURSIVE RetainDetails_keeps_empty(_, _, _, _, _)
RetainDetails_keeps_empty(todo, dw, ch, stats, at) ==
    IF todo = {} THEN [details_watchers |-> dw, chan |-> ch]
    ELSE LET id == CHOOSE i \in todo : TRUE
         IN IF id \in DOMAIN stats
            THEN LET r == RetainSent(dw[id], ch,
                              TaskDetails(id, at, stats[id].data))
                 IN RetainDetails_keeps_empty(todo \ {id},
                        [dw EXCEPT ![id] = r.kept], r.chan, stats, at)
            ELSE RetainDetails_keeps_empty(todo \ {id},
                        [i \in DOMAIN dw \ {id} |-> dw[i]], ch, stats, at)

\* details_watchers.retain(..) over the task ids in todo
RECURSIVE RetainDetails(_, _, _, _, _)
RetainDetails(todo, dw, ch, stats, at) ==
    IF todo = {} THEN [details_watchers |-> dw, chan |-> ch]
    ELSE LET id == CHOOSE i \in todo : TRUE
         IN IF id \in DOMAIN stats
            THEN LET r == RetainSent(dw[id], ch,
                              TaskDetails(id, at, stats[id].data))
                     dw1 == IF r.kept = <<>>
                            THEN [i \in DOMAIN dw \ {id} |-> dw[i]]
                            ELSE [dw EXCEPT ![id] = r.kept]
                 IN RetainDetails(todo \ {id}, dw1, r.chan, stats, at)
            ELSE RetainDetails(todo \ {id},
                               [i \in DOMAIN dw \ {id} |-> dw[i]], ch, stats, at)

\* a publish that clones new_metadata instead of taking it
publish_keeps_metadata(st, ch, at) ==
    LET new_md == IF st.new_metadata # <<>>
                  THEN SomeMetadata(st.new_metadata) ELSE NoMetadata
        update == InstrumentUpdate(st, TRUE, at, new_md)
        st1 == TablesAfterAsProto(st, TRUE)
        r == RetainSent(st.watchers, ch, update)
        d == RetainDetails(DOMAIN st.details_watchers, st.details_watchers,
                           r.chan, st1.task_stats, at)
    IN [st |-> [st1 EXCEPT !.watchers = r.kept,
                           !.details_watchers = d.details_watchers],
        chan |-> d.chan,
        update |-> update]

\* Aggregator::publish
publish(st, ch, at) ==
    LET new_md == IF st.new_metadata # <<>>
                  THEN SomeMetadata(st.new_metadata) ELSE NoMetadata
        update == InstrumentUpdate(st, TRUE, at, new_md)
        st1 == [TablesAfterAsProto(st, TRUE) EXCEPT !.new_metadata = <<>>]
        r == RetainSent(st.watchers, ch, update)
        d == RetainDetails(DOMAIN st.details_watchers, st.details_watchers,
                           r.chan, st1.task_stats, at)
    IN [st |-> [st1 EXCEPT !.watchers = r.kept,
                           !.details_watchers = d.details_watchers],
        chan |-> d.chan,
        update |-> update]

\* ------------------------------------------------------------------ events

Metadata(m) == [type |-> "Metadata", meta |-> m]
Spawn(id, at) == [type |-> "Spawn", id |-> id, metadata |-> 1, at |-> at, fields |-> <<>>]
Enter(id, at) == [type |-> "Enter", id |-> id, at |-> at]
Exit(id, at) == [type |-> "Exit", id |-> id, at |-> at]
Close(id, at) == [type |-> "Close", id |-> id, at |-> at]
Waker(id, op, at) == [type |-> "Waker", id |-> id, op |-> op, at |-> at]
Resource(id, at) ==
    [type |-> "Resource", at |-> at, id |-> id, metadata |-> 1,
     kind |-> "Sync", concrete_type |-> "Mutex"]
AsyncResourceOp(id, at) ==
    [type |-> "AsyncResourceOp", at |-> at, id |-> id, source |-> "acquire",
     metadata |-> 1]
PollOp(meta, resource_id, async_op_id, task_id, readiness, at) ==
    [type |-> "ResourceOp", metadata |-> meta, at |-> at,
     resource_id |-> resource_id, op_name |-> "poll_acquire",
     op_type |-> [tag |-> "Poll", async_op_id |-> async_op_id,
                  task_id |-> task_id, readiness |-> readiness]]
StateUpdateOp(meta, resource_id, updates, at) ==
    [type |-> "ResourceOp", metadata |-> meta, at |-> at,
     resource_id |-> resource_id, op_name |-> "add_permits",
     op_type |-> [tag |-> "StateUpdate", updates |-> updates]]

\* what the producers of the main specification emit at time `at`
MainEvents(at) ==
    {Spawn(i, at) : i \in Ids} \cup {Close(1, at)}

\* what the producers emit where the tables' contents do not matter
FlushEvents(at) == {Spawn(1, at)}

\* what the producers of the wide specification emit: every table gets rows
WideEvents(at) ==
    {Metadata(1), Spawn(1, at), Waker(1, "Clone", at), Resource(1, at),
     AsyncResourceOp(2, at), PollOp(2, 1, 2, 1, "Pending", at),
     Close(1, at), Close(2, at)}

\* what the producers of the details specification emit: task 1 comes and
\* goes, stamped by the producers at time 0
DetailEvents == {Spawn(1, 0), Close(1, 0)}

Times == 0 .. MaxTime
WakeOps == {"Wake", "WakeByRef", "Clone", "Drop"}

\* what the producers of the reducer specification record: polls and wakers of
\* task 1, and async op 2 polled on behalf of two tasks and two resources.
\* The timestamps are the producers' own readings of the system clock.
ReduceEvents ==
    {Spawn(1, 0)}
    \cup {Enter(1, t) : t \in Times}
    \cup {Exit(1, t) : t \in Times}
    \cup {Waker(1, op, MaxTime) : op \in WakeOps}
    \cup {AsyncResourceOp(2, 0),
          PollOp(1, 1, 2, 1, "Pending", MaxTime),
          PollOp(2, 2, 2, 2, "Ready", 0)}

\* scenario S1 of the specification
S1Script ==
    <<Metadata(1), Spawn(1, 100), Enter(1, 200), Exit(1, 500),
      Enter(1, 800), Exit(1, 900), Close(1, 1000)>>

AttrOps == {"Add", "Sub", "Ovr"}
AttrVals == {1, MaxAttrVal}

\* AttributeUpdate { name, val: AttributeUpdateValue }
NumericUpdate(op, v) ==
    [name |-> "queued",
     val |-> [tag |-> "Numeric", op |-> op, val |-> v, unit |-> "msg"]]
TextUpdate(text) ==
    [name |-> "queued", val |-> [tag |-> "Text", text |-> text]]

AttrUpdates ==
    {NumericUpdate(op, v) : op \in AttrOps, v \in AttrVals} \cup {TextUpdate("open")}

\* what the producers of the attribute specification record: resource 1, state
\* updates of its attribute from call site 1, a two-update list from call
\* site 2, and a state update of a resource nobody created
AttrEvents ==
    {Resource(1, 0), Close(1, 0)}
    \cup {StateUpdateOp(1, 1, <<u>>, 0) : u \in AttrUpdates}
    \cup {StateUpdateOp(2, 1, <<NumericUpdate("Add", 1), NumericUpdate("Sub", 1)>>, 0),
          StateUpdateOp(1, 2, <<NumericUpdate("Add", 1)>>, 0)}

\* scenario S6 of the specification
S6Script ==
    <<Resource(7, 0),
      StateUpdateOp(1, 7, <<NumericUpdate("Add", 3)>>, 0),
      StateUpdateOp(1, 7, <<NumericUpdate("Add", 3)>>, 0),
      StateUpdateOp(1, 7, <<NumericUpdate("Ovr", 1)>>, 0)>>

\* what the producers of the dirty-bit specification record: one event for
\* each path of the reducer, all about task 1, resource 1 and async op 2
DirtyEvents ==
    {Spawn(1, 0), Enter(1, 0), Exit(1, 0), Close(1, 0), Waker(1, "Wake", 0),
     Resource(1, 0), StateUpdateOp(1, 1, <<NumericUpdate("Add", 1)>>, 0),
     PollOp(2, 1, 2, 1, "Pending", 0), AsyncResourceOp(2, 0)}

\* ------------------------------------------------------------------- state

Self ==
    [watchers |-> watchers, details_watchers |-> details_watchers,
     all_metadata |-> all_metadata, new_metadata |-> new_metadata,
     tasks |-> tasks, task_stats |-> task_stats,
     resources |-> resources, resource_stats |-> resource_stats,
     async_ops |-> async_ops, async_op_stats |-> async_op_stats,
     resource_ops |-> resource_ops, panic |-> FALSE]

SetSelf(st) ==
    /\ watchers' = st.watchers
    /\ details_watchers' = st.details_watchers
    /\ all_metadata' = st.all_metadata
    /\ new_metadata' = st.new_metadata
    /\ tasks' = st.tasks
    /\ task_stats' = st.task_stats
    /\ resources' = st.resources
    /\ resource_stats' = st.resource_stats
    /\ async_ops' = st.async_ops
    /\ async_op_stats' = st.async_op_stats
    /\ resource_ops' = st.resource_ops

\* Aggregator::new
InitWith(keep_for, todo, builds) ==
    /\ events = <<>> /\ events_closed = FALSE
    /\ rpcs = <<>> /\ rpcs_closed = FALSE
    /\ retention = keep_for
    /\ triggered = FALSE /\ permit = FALSE
    /\ watchers = <<>> /\ details_watchers = <<>>
    /\ all_metadata = <<>> /\ new_metadata = <<>>
    /\ tasks = EmptyIdData /\ task_stats = EmptyIdData
    /\ resources = EmptyIdData /\ resource_stats = EmptyIdData
    /\ async_ops = EmptyIdData /\ async_op_stats = EmptyIdData
    /\ resource_ops = EmptyIdData
    /\ pc = "select" /\ should_send = FALSE /\ woken_by = "none"
    /\ now = 0
    /\ overflow_checks \in builds
    /\ produced = 0
    /\ script = todo
    /\ trig_pc = [p \in Producers |-> "idle"]
    /\ chan = <<>>
    /\ last_update = NoUpdate

\* the events of the main specification overflow no counter, so that the two
\* builds behave alike on them: one is explored
Init == InitWith(Retention, <<>>, {TRUE})

\* ------------------------------------------------------------ environment

AdvanceClock(limit) ==
    /\ now < limit
    /\ now' = now + 1
    /\ UNCHANGED <<events, events_closed, rpcs, rpcs_closed, retention, flushVars,
                   aggVars, pc, should_send, woken_by, overflow_checks, produced,
                   script, chan, last_update>>

\* a producer's try_send of one event into the bounded event channel
Produce(e) ==
    /\ ~events_closed
    /\ produced < MaxEvents
    /\ Len(events) < MaxQueue
    /\ events' = Append(events, e)
    /\ produced' = produced + 1
    /\ UNCHANGED <<events_closed, rpcs, rpcs_closed, retention, flushVars, aggVars,
                   pc, should_send, woken_by, now, overflow_checks, script, chan, last_update>>

\* a producer that emits a fixed list of events, each at its own timestamp
ProduceScripted ==
    /\ ~events_closed
    /\ script # <<>>
    /\ Len(events) < MaxQueue
    /\ Head(script).type # "Metadata" => Head(script).at = now
    /\ events' = Append(events, Head(script))
    /\ script' = Tail(script)
    /\ produced' = produced + 1
    /\ UNCHANGED <<events_closed, rpcs, rpcs_closed, retention, flushVars, aggVars,
                   pc, should_send, woken_by, now, overflow_checks, chan, last_update>>

\* a producer records an event it stamped itself, whatever the clock says now
Record(e) ==
    /\ ~events_closed
    /\ script = <<>>
    /\ produced < MaxRecorded
    /\ Len(events) < MaxQueue
    /\ events' = Append(events, e)
    /\ produced' = produced + 1
    /\ UNCHANGED <<events_closed, rpcs, rpcs_closed, retention, flushVars, aggVars,
                   pc, should_send, woken_by, now, overflow_checks, script, chan, last_update>>

\* a producer replays a fixed list of events it stamped itself
ProduceRecorded ==
    /\ ~events_closed
    /\ script # <<>>
    /\ Len(events) < MaxQueue
    /\ events' = Append(events, Head(script))
    /\ script' = Tail(script)
    /\ produced' = produced + 1
    /\ UNCHANGED <<events_closed, rpcs, rpcs_closed, retention, flushVars, aggVars,
                   pc, should_send, woken_by, now, overflow_checks, chan, last_update>>

\* the last event Sender is dropped
CloseEvents ==
    /\ ~events_closed
    /\ events_closed' = TRUE
    /\ UNCHANGED <<events, rpcs, rpcs_closed, retention, flushVars, aggVars,
                   pc, should_send, woken_by, now, overflow_checks, produced,
                   script, chan, last_update>>

\* a compare_exchange that succeeds whatever the flag holds
TriggerCas_always_wins(p) ==
    /\ trig_pc[p] = "idle"
    /\ triggered' = TRUE
    /\ trig_pc' = [trig_pc EXCEPT ![p] = "notify"]
    /\ UNCHANGED <<events, events_closed, rpcs, rpcs_closed, retention, permit,
                   aggVars, pc, should_send, woken_by, now, overflow_checks,
                   produced, script, chan, last_update>>

\* Flush::trigger, first half: the compare_exchange(false, true)
TriggerCas(p) ==
    /\ trig_pc[p] = "idle"
    /\ ~triggered
    /\ triggered' = TRUE
    /\ trig_pc' = [trig_pc EXCEPT ![p] = "notify"]
    /\ UNCHANGED <<events, events_closed, rpcs, rpcs_closed, retention, permit,
                   aggVars, pc, should_send, woken_by, now, overflow_checks,
                   produced, script, chan, last_update>>

\* Flush::trigger, second half: should_flush.notify_one()
TriggerNotify(p) ==
    /\ trig_pc[p] = "notify"
    /\ permit' = TRUE
    /\ trig_pc' = [trig_pc EXCEPT ![p] = "idle"]
    /\ UNCHANGED <<events, events_closed, rpcs, rpcs_closed, retention, triggered,
                   aggVars, pc, should_send, woken_by, now, overflow_checks,
                   produced, script, chan, last_update>>

NewChan(kind, cap) ==
    [kind |-> kind, cap |-> cap, len |-> 0, rx_closed |-> FALSE,
     reply |-> IF kind = "TaskDetail" THEN "pending" ELSE "none",
     applied |-> IF kind = "Instrument" THEN EmptyView ELSE NoDetails]

NextWid == Cardinality(DOMAIN chan) + 1

\* the clients ask for queues of every capacity in Caps, in turn
CapOf(w) == ((w - 1) % MaxCap) + 1

\* a client opens the instrument stream: WatchKind::Instrument(Watch(tx))
SubscribeInstrument(cap) ==
    /\ ~rpcs_closed
    /\ NextWid \in Wids
    /\ chan' = [w \in DOMAIN chan \cup {NextWid} |->
                   IF w = NextWid THEN NewChan("Instrument", cap) ELSE chan[w]]
    /\ rpcs' = Append(rpcs, [kind |-> "Instrument", wid |-> NextWid])
    /\ UNCHANGED <<events, events_closed, rpcs_closed, retention, flushVars, aggVars,
                   pc, should_send, woken_by, now, overflow_checks, produced, script, last_update>>

\* a client asks for one task's details: WatchKind::TaskDetail(WatchRequest)
SubscribeDetails(id, buffer) ==
    /\ ~rpcs_closed
    /\ NextWid \in DetailWids
    /\ chan' = [w \in DOMAIN chan \cup {NextWid} |->
                   IF w = NextWid THEN NewChan("TaskDetail", buffer) ELSE chan[w]]
    /\ rpcs' = Append(rpcs, [kind |-> "TaskDetail", wid |-> NextWid,
                             id |-> id, buffer |-> buffer])
    /\ UNCHANGED <<events, events_closed, rpcs_closed, retention, flushVars, aggVars,
                   pc, should_send, woken_by, now, overflow_checks, produced, script, last_update>>

\* a client takes the next message off its queue and applies it
ClientRecv(w) ==
    /\ w \in DOMAIN chan
    /\ ~chan[w].rx_closed
    /\ chan[w].len > 0
    /\ chan' = [chan EXCEPT ![w].len = @ - 1]
    /\ UNCHANGED <<events, events_closed, rpcs, rpcs_closed, retention, flushVars,
                   aggVars, pc, should_send, woken_by, now, overflow_checks,
                   produced, script, last_update>>

\* a client goes away: its receiving end (or its reply receiver) is dropped
ClientDrop(w) ==
    /\ w \in DOMAIN chan
    /\ ~chan[w].rx_closed
    /\ chan' = [chan EXCEPT ![w].rx_closed = TRUE, ![w].len = 0]
    /\ UNCHANGED <<events, events_closed, rpcs, rpcs_closed, retention, flushVars,
                   aggVars, pc, should_send, woken_by, now, overflow_checks,
                   produced, script, last_update>>

\* the rpc server goes away: the last rpc Sender is dropped
CloseRpcs ==
    /\ ~rpcs_closed
    /\ rpcs_closed' = TRUE
    /\ UNCHANGED <<events, events_closed, rpcs, retention, flushVars, aggVars,
                   pc, should_send, woken_by, now, overflow_checks, produced,
                   script, chan, last_update>>

\* -------------------------------------------------------- Aggregator::run

envVars == <<events_closed, rpcs_closed, retention, now, overflow_checks,
             produced, script>>

\* select!: publish.tick()
SelectTick ==
    /\ pc = "select"
    /\ should_send' = TRUE
    /\ woken_by' = "tick"
    /\ pc' = "drain"
    /\ UNCHANGED <<events, rpcs, flushVars, aggVars, chan, last_update, envVars>>

\* select!: flush_capacity.should_flush.notified() completes
SelectFlush ==
    /\ pc = "select"
    /\ permit
    /\ permit' = FALSE
    /\ woken_by' = "flush"
    /\ pc' = "flushed"
    /\ UNCHANGED <<events, rpcs, triggered, trig_pc, aggVars, should_send, chan,
                   last_update, envVars>>

\* a flush arm that leaves the flag set
ClearTriggered_keeps_flag ==
    /\ pc = "flushed"
    /\ should_send' = FALSE
    /\ pc' = "drain"
    /\ UNCHANGED <<events, rpcs, flushVars, aggVars, woken_by, chan, last_update, envVars>>

\* the flush arm's body: triggered.store(false, Release)
ClearTriggered ==
    /\ pc = "flushed"
    /\ triggered' = FALSE
    /\ should_send' = FALSE
    /\ pc' = "drain"
    /\ UNCHANGED <<events, rpcs, permit, trig_pc, aggVars, woken_by, chan, last_update, envVars>>

\* select!: rpcs.recv() yields a subscription, which is serviced
SelectRpc ==
    /\ pc = "select"
    /\ rpcs # <<>>
    /\ LET req == Head(rpcs)
       IN IF req.kind = "Instrument"
          THEN LET r == add_instrument_subscription(Self, chan, req.wid, now)
               IN /\ SetSelf(r.st)
                  /\ chan' = r.chan
                  /\ last_update' = r.update
                  /\ pc' = "drain"
          ELSE \E rx_gone \in BOOLEAN :
                  LET r == add_task_detail_subscription(Self, chan, req, now, rx_gone)
                  IN /\ SetSelf(r.st)
                     /\ chan' = r.chan
                     /\ last_update' = last_update
                     /\ pc' = IF r.st.panic THEN "panicked" ELSE "drain"
    /\ rpcs' = Tail(rpcs)
    /\ should_send' = FALSE
    /\ woken_by' = "rpc"
    /\ UNCHANGED <<events, flushVars, envVars>>

\* select!: rpcs.recv() yields None
SelectRpcClosed ==
    /\ pc = "select"
    /\ rpcs = <<>>
    /\ rpcs_closed
    /\ woken_by' = "rpc"
    /\ pc' = "done"
    /\ UNCHANGED <<events, rpcs, flushVars, aggVars, should_send, chan, last_update, envVars>>

\* events.recv().now_or_never() yields an event
DrainEvent ==
    /\ pc = "drain"
    /\ events # <<>>
    /\ LET st == update_state(Self, Head(events), overflow_checks)
       IN /\ SetSelf(st)
          /\ pc' = IF st.panic THEN "panicked" ELSE "drain"
    /\ events' = Tail(events)
    /\ UNCHANGED <<rpcs, flushVars, should_send, woken_by, chan, last_update, envVars>>

\* a drain that carries on to the publish when it finds the channel closed
DrainClosed_continues ==
    /\ pc = "drain"
    /\ events = <<>>
    /\ events_closed
    /\ pc' = "publish"
    /\ UNCHANGED <<events, rpcs, flushVars, aggVars, should_send, woken_by, chan,
                   last_update, envVars>>

\* events.recv().now_or_never() yields Some(None): the channel is closed
DrainClosed ==
    /\ pc = "drain"
    /\ events = <<>>
    /\ events_closed
    /\ pc' = "done"
    /\ UNCHANGED <<events, rpcs, flushVars, aggVars, should_send, woken_by, chan,
                   last_update, envVars>>

\* events.recv().now_or_never() yields None: nothing is buffered
DrainEmpty ==
    /\ pc = "drain"
    /\ events = <<>>
    /\ ~events_closed
    /\ pc' = "publish"
    /\ UNCHANGED <<events, rpcs, flushVars, aggVars, should_send, woken_by, chan,
                   last_update, envVars>>

\* a loop that publishes whatever woke it
PublishStep_always ==
    /\ pc = "publish"
    /\ IF watchers # <<>>
       THEN LET r == publish(Self, chan, now)
            IN SetSelf(r.st) /\ chan' = r.chan /\ last_update' = r.update
       ELSE UNCHANGED <<aggVars, chan, last_update>>
    /\ pc' = "cleanup"
    /\ UNCHANGED <<events, rpcs, flushVars, should_send, woken_by, envVars>>

\* a loop that publishes at every tick, instrument watchers or not
PublishStep_no_watchers ==
    /\ pc = "publish"
    /\ IF should_send
       THEN LET r == publish(Self, chan, now)
            IN SetSelf(r.st) /\ chan' = r.chan /\ last_update' = r.update
       ELSE UNCHANGED <<aggVars, chan, last_update>>
    /\ pc' = "cleanup"
    /\ UNCHANGED <<events, rpcs, flushVars, should_send, woken_by, envVars>>

\* if !self.watchers.is_empty() && should_send { self.publish() }
PublishStep ==
    /\ pc = "publish"
    /\ IF watchers # <<>> /\ should_send
       THEN LET r == publish(Self, chan, now)
            IN SetSelf(r.st) /\ chan' = r.chan /\ last_update' = r.update
       ELSE UNCHANGED <<aggVars, chan, last_update>>
    /\ pc' = "cleanup"
    /\ UNCHANGED <<events, rpcs, flushVars, should_send, woken_by, envVars>>

\* self.cleanup_closed()
CleanupStep ==
    /\ pc = "cleanup"
    /\ SetSelf(cleanup_closed(Self, now, retention))
    /\ pc' = "select"
    \* the iteration ends: its locals go out of scope
    /\ should_send' = FALSE
    /\ woken_by' = "none"
    /\ last_update' = NoUpdate
    /\ UNCHANGED <<events, rpcs, flushVars, chan, envVars>>

\* the steps of the loop other than the two of the flush arm
LoopStep ==
    \/ SelectTick \/ SelectRpc
    \/ DrainEvent \/ DrainEmpty \/ PublishStep \/ CleanupStep

FlushArm == SelectFlush \/ ClearTriggered

\* --------------------------------------------------------- specifications

\* Spec: producers, the clock and instrument clients around the loop
Next ==
    \/ AdvanceClock(retention + TimeSlack)
    \/ \E e \in MainEvents(now) : Produce(e)
    \/ SubscribeInstrument(CapOf(NextWid))
    \/ \E w \in Wids : ClientRecv(w)
    \/ \E w \in Wids : ClientDrop(w)
    \/ LoopStep

Spec == Init /\ [][Next]_vars

\* SpecWide: events that fill all seven tables; the first client keeps up, the
\* later ones may go away
NextWide ==
    \/ \E e \in WideEvents(now) : Produce(e)
    \/ SubscribeInstrument(CapOf(NextWid))
    \/ \E w \in Wids : ClientRecv(w)
    \/ \E w \in Wids \ {1} : ClientDrop(w)
    \/ LoopStep

SpecWide == Init /\ [][NextWide]_vars

\* SpecFlush: producers that call Flush::trigger
NextFlush ==
    \/ \E e \in FlushEvents(now) : Produce(e)
    \/ \E p \in Producers : TriggerCas(p)
    \/ \E p \in Producers : TriggerNotify(p)
    \/ SubscribeInstrument(CapOf(NextWid))
    \/ \E w \in Wids : ClientRecv(w)
    \/ LoopStep
    \/ FlushArm

SpecFlush == Init /\ [][NextFlush]_vars

\* SpecTerm: the event and rpc channels can close; the loop is scheduled
\* fairly and its publish interval keeps ticking
NextTerm ==
    \/ \E e \in FlushEvents(now) : Produce(e)
    \/ CloseEvents
    \/ CloseRpcs
    \/ SubscribeInstrument(CapOf(NextWid))
    \/ LoopStep
    \/ SelectRpcClosed
    \/ DrainClosed

SpecTerm ==
    Init /\ [][NextTerm]_vars
         /\ WF_vars(LoopStep \/ SelectRpcClosed \/ DrainClosed)

\* SpecS5: scenario S5 of the specification, with no subscriber
InitS5 ==
    InitWith(S5Retention, <<Spawn(1, S5SpawnAt), Close(1, S5CloseAt)>>, {TRUE})

NextS5 ==
    \/ AdvanceClock(S5CloseAt + retention + TimeSlack)
    \/ ProduceScripted
    \/ TriggerCas(1)
    \/ TriggerNotify(1)
    \/ SelectTick \/ DrainEvent \/ DrainEmpty \/ PublishStep \/ CleanupStep
    \/ FlushArm

SpecS5 == InitS5 /\ [][NextS5]_vars

\* SpecS3: scenario S3 of the specification. Its one client subscribes once
\* tasks 1 and 2 are in the tables, the third spawn follows the registration,
\* and the client reads nothing, so that len counts the messages sent to it.
InitS3 ==
    InitWith(Retention, <<Spawn(1, 0), Spawn(2, 0), Spawn(3, 0)>>, {TRUE})

S3Subscribe ==
    /\ NextWid = 1
    /\ Len(script) = 1 /\ events = <<>>
    /\ DOMAIN tasks = {1, 2}
    /\ SubscribeInstrument(MaxCap)

S3Produce ==
    /\ Len(script) = 1 => watchers # <<>>
    /\ ProduceScripted

NextS3 ==
    \/ S3Produce
    \/ TriggerCas(1)
    \/ TriggerNotify(1)
    \/ S3Subscribe
    \/ LoopStep
    \/ FlushArm

SpecS3 == InitS3 /\ [][NextS3]_vars

\* SpecReduce: the reducer alone, in both builds, with nobody watching. The
\* producers either record events of ReduceEvents in any order or replay
\* scenario S1.
InitReduce ==
    \E sc \in {<<>>, S1Script} : InitWith(Retention, sc, {TRUE, FALSE})

NextReduce ==
    \/ \E e \in ReduceEvents : Record(e)
    \/ ProduceRecorded
    \/ SelectTick \/ DrainEvent \/ DrainEmpty \/ PublishStep \/ CleanupStep

SpecReduce == InitReduce /\ [][NextReduce]_vars

\* SpecAttr: the reducer on resource state updates, in both builds, with nobody
\* watching and the clock running past the retention period. The producers
\* either record events of AttrEvents in any order or replay scenario S6.
InitAttr ==
    \E sc \in {<<>>, S6Script} : InitWith(Retention, sc, {TRUE, FALSE})

NextAttr ==
    \/ AdvanceClock(retention + TimeSlack)
    \/ \E e \in AttrEvents : Record(e)
    \/ ProduceRecorded
    \/ SelectTick \/ DrainEvent \/ DrainEmpty \/ PublishStep \/ CleanupStep

SpecAttr == InitAttr /\ [][NextAttr]_vars

\* SpecDetails: clients that ask for the details of a task, held or not, next
\* to one instrument client, which reads nothing. A details client reads its
\* queue or goes away at any time, before or after its request is serviced,
\* and the clock runs past the retention period
DetailsInstrument ==
    /\ \A w \in DOMAIN chan : chan[w].kind # "Instrument"
    /\ SubscribeInstrument(MaxCap)

DetailsClientRecv(w) ==
    /\ w \in DOMAIN chan
    /\ chan[w].kind = "TaskDetail"
    /\ ClientRecv(w)

DetailsClientDrop(w) ==
    /\ w \in DOMAIN chan
    /\ chan[w].kind = "TaskDetail"
    /\ ClientDrop(w)

NextDetails ==
    \/ AdvanceClock(retention + TimeSlack)
    \/ \E e \in DetailEvents : Produce(e)
    \/ DetailsInstrument
    \/ \E id \in Ids, buffer \in DetailBuffers : SubscribeDetails(id, buffer)
    \/ \E w \in DetailWids : DetailsClientRecv(w)
    \/ \E w \in DetailWids : DetailsClientDrop(w)
    \/ LoopStep

SpecDetails == Init /\ [][NextDetails]_vars

\* SpecFlushFair: producers that call Flush::trigger around a loop that is
\* scheduled fairly: the loop takes a step whenever it can, select! picks the
\* flush arm if the arm is ready again and again, and a producer that has set
\* the flag goes on to call notify_one
NextFlushFair ==
    \/ \E e \in FlushEvents(now) : Produce(e)
    \/ \E p \in Producers : TriggerCas(p)
    \/ \E p \in Producers : TriggerNotify(p)
    \/ SelectTick \/ DrainEvent \/ DrainEmpty \/ PublishStep \/ CleanupStep
    \/ FlushArm

SpecFlushFair ==
    /\ Init /\ [][NextFlushFair]_vars
    /\ WF_vars(SelectTick \/ DrainEvent \/ DrainEmpty \/ PublishStep
               \/ CleanupStep \/ ClearTriggered)
    /\ SF_vars(SelectFlush)
    /\ \A p \in Producers : WF_vars(TriggerNotify(p))

\* SpecDirty: every path of the reducer, in both builds, with one instrument
\* client whose queue takes the snapshot and the publishes that follow until
\* it is full, so that rows are published, cleaned and changed again
DirtyInstrument ==
    /\ chan = <<>>
    /\ SubscribeInstrument(MaxCap)

\* once the producers are done, a second client asks for the details of task 1
DirtyDetails ==
    /\ produced = MaxRecorded /\ events = <<>>
    /\ watchers # <<>> /\ rpcs = <<>>
    /\ SubscribeDetails(1, MaxCap)

NextDirty ==
    \/ \E e \in DirtyEvents : Record(e)
    \/ DirtyInstrument
    \/ DirtyDetails
    \/ LoopStep

InitDirty == InitWith(Retention, <<>>, {TRUE, FALSE})

SpecDirty == InitDirty /\ [][NextDirty]_vars

\* ------------------------------------------------------------ properties

\* the step of the loop that runs cleanup_closed
RetentionPass == pc = "cleanup" /\ pc' = "select"

\* how long the closed row has been closed at the time of the pass
ClosedFor(row) == IF now >= row.data.closed_at THEN now - row.data.closed_at ELSE 0

IsClosed(row) == row.data.closed_at # None

\* the client of watcher w has been sent row id of a stats table in its closed
\* state: closed rows are the ones whose wire form carries a total_time
SentClosed(w, field, id) ==
    /\ id \in DOMAIN chan[w].applied[field]
    /\ chan[w].applied[field][id].total_time # None

\* C1: while a watcher is registered, a retention pass does not remove a closed
\* stats row whose closed state no publish has carried to the watchers, unless
\* the row has been closed for longer than the retention period.
C1_UnpublishedClosedRowKept ==
    [][(RetentionPass /\ watchers # <<>>) =>
        /\ \A id \in DOMAIN task_stats :
             (IsClosed(task_stats[id]) /\ id \notin DOMAIN task_stats') =>
                \/ ClosedFor(task_stats[id]) > retention
                \/ \A w \in Range(watchers) : SentClosed(w, "task_stats", id)
        /\ \A id \in DOMAIN resource_stats :
             (IsClosed(resource_stats[id]) /\ id \notin DOMAIN resource_stats') =>
                \/ ClosedFor(resource_stats[id]) > retention
                \/ \A w \in Range(watchers) : SentClosed(w, "resource_stats", id)
        /\ \A id \in DOMAIN async_op_stats :
             (IsClosed(async_op_stats[id]) /\ id \notin DOMAIN async_op_stats') =>
                \/ ClosedFor(async_op_stats[id]) > retention
                \/ \A w \in Range(watchers) : SentClosed(w, "async_op_stats", id)
       ]_vars

\* the retention rule as the specification words it: closed, and either
\* watched and not dirty, or closed for longer than the retention period
DropRuleWithCleanRows(row) ==
    /\ IsClosed(row)
    /\ \/ watchers # <<>> /\ ~row.dirty
       \/ ClosedFor(row) > retention

\* C2: a retention pass removes a stats row exactly when the row is closed and
\* either a watcher is registered and the row is not dirty, or the row has
\* been closed for longer than the retention period.
C2_DropsCleanOrExpired ==
    [][RetentionPass =>
        /\ \A id \in DOMAIN task_stats :
             id \notin DOMAIN task_stats' <=> DropRuleWithCleanRows(task_stats[id])
        /\ \A id \in DOMAIN resource_stats :
             id \notin DOMAIN resource_stats' <=> DropRuleWithCleanRows(resource_stats[id])
        /\ \A id \in DOMAIN async_op_stats :
             id \notin DOMAIN async_op_stats' <=> DropRuleWithCleanRows(async_op_stats[id])
       ]_vars

\* task 1 of scenario S5 is in the tables, spawned and closed as the scenario
\* says, and nobody watches
S5TaskClosed ==
    /\ watchers = <<>>
    /\ retention = S5Retention
    /\ 1 \in DOMAIN task_stats /\ 1 \in DOMAIN tasks
    /\ task_stats[1].data.created_at = S5SpawnAt
    /\ task_stats[1].data.closed_at = S5CloseAt

S5TaskGone == 1 \notin DOMAIN task_stats' /\ 1 \notin DOMAIN tasks'

\* C3 (as the specification states it): in scenario S5 a retention pass at any
\* time from S5CloseAt + S5Retention on removes task 1 from task_stats and tasks.
C3_ReclaimedFromBoundary ==
    [][(RetentionPass /\ S5TaskClosed /\ now >= S5CloseAt + S5Retention)
          => S5TaskGone]_vars

\* C3 (amended): in scenario S5 a retention pass strictly later than
\* S5CloseAt + S5Retention removes task 1 from task_stats and tasks, and a pass
\* at or before that instant keeps it in both.
C3_ReclaimedPastBoundary ==
    [][(RetentionPass /\ S5TaskClosed) =>
          IF now > S5CloseAt + S5Retention
          THEN S5TaskGone
          ELSE 1 \in DOMAIN task_stats' /\ 1 \in DOMAIN tasks']_vars

\* C3 witness: both events of the scenario were reduced and a pass later than
\* the boundary has removed the task
C3_ReclaimedWitness ==
    /\ script = <<>> /\ events = <<>> /\ produced = 2
    /\ pc = "select"
    /\ now > S5CloseAt + S5Retention
    /\ 1 \notin DOMAIN task_stats /\ 1 \notin DOMAIN tasks
    /\ all_metadata = <<>> /\ watchers = <<>>

\* what a client that has applied every message sent to it holds of the
\* aggregator's tables: every identity row and every stats row, as on the wire
ViewHolds(have, id, wire) == id \in DOMAIN have /\ have[id] = wire

ViewAgrees(v) ==
    /\ \A i \in DOMAIN tasks :
          ViewHolds(v.tasks, i, Task_to_proto(tasks[i].data))
    /\ \A i \in DOMAIN task_stats :
          ViewHolds(v.task_stats, i, TaskStats_to_proto(task_stats[i].data))
    /\ \A i \in DOMAIN resources :
          ViewHolds(v.resources, i, Resource_to_proto(resources[i].data))
    /\ \A i \in DOMAIN resource_stats :
          ViewHolds(v.resource_stats, i, ResourceStats_to_proto(resource_stats[i].data))
    /\ \A i \in DOMAIN async_ops :
          ViewHolds(v.async_ops, i, AsyncOp_to_proto(async_ops[i].data))
    /\ \A i \in DOMAIN async_op_stats :
          ViewHolds(v.async_op_stats, i, AsyncOpStats_to_proto(async_op_stats[i].data))
    /\ \A i \in DOMAIN resource_ops :
          ViewHolds(v.resource_ops, i, ResourceOp_to_proto(resource_ops[i].data))

\* the iteration has published: PublishStep ran with should_send set and a
\* watcher registered, and the retention pass has not run yet
JustPublished == pc = "cleanup" /\ should_send /\ last_update.now # None

\* C4: after each publish, every registered subscriber that has applied its
\* snapshot and every publish since holds, for every id in the aggregator's
\* seven tables, the identity row and the stats value the aggregator holds;
\* the subscriber may hold more (rows the aggregator evicted).
C4_SubscriberReconstructs ==
    JustPublished => \A w \in Range(watchers) : ViewAgrees(chan[w].applied)

\* C4 witness: a publish reached two subscribers while the three stats tables
\* held rows, one of which the earlier subscriber alone had seen before
C4_ReconstructsWitness ==
    /\ JustPublished
    /\ Len(watchers) = 2
    /\ task_stats # <<>> /\ resource_stats # <<>> /\ async_op_stats # <<>>
    /\ last_update.task_stats_update # <<>>

\* the step that services an instrument subscription
InstrumentSubscriptionStep ==
    pc = "select" /\ rpcs # <<>> /\ Head(rpcs).kind = "Instrument" /\ woken_by' = "rpc"

\* the new watcher's queue takes one message: it is open and has a free slot
NewWatcherTakes == LET c == chan[Head(rpcs).wid] IN ~c.rx_closed /\ c.len < c.cap

\* C5: the message built for a new instrument subscription holds every row of
\* the seven tables as they are when the subscription is serviced, dirty or
\* not, and all of all_metadata; the queued events stay queued; the watcher is
\* registered exactly when the one try-send is accepted.
C5_SnapshotIsFull ==
    [][InstrumentSubscriptionStep =>
        LET w == Head(rpcs).wid
            m == last_update'
        IN /\ m.now = now
           /\ m.new_metadata = [some |-> TRUE, metadata |-> all_metadata]
           /\ m.new_tasks = {Task_to_proto(tasks[i].data) : i \in DOMAIN tasks}
           /\ m.task_stats_update =
                 [i \in DOMAIN task_stats |-> TaskStats_to_proto(task_stats[i].data)]
           /\ m.new_resources =
                 {Resource_to_proto(resources[i].data) : i \in DOMAIN resources}
           /\ m.resource_stats_update =
                 [i \in DOMAIN resource_stats |->
                     ResourceStats_to_proto(resource_stats[i].data)]
           /\ m.new_async_ops =
                 {AsyncOp_to_proto(async_ops[i].data) : i \in DOMAIN async_ops}
           /\ m.async_op_stats_update =
                 [i \in DOMAIN async_op_stats |->
                     AsyncOpStats_to_proto(async_op_stats[i].data)]
           /\ m.new_resource_ops =
                 {ResourceOp_to_proto(resource_ops[i].data) : i \in DOMAIN resource_ops}
           /\ events' = events
           /\ IF NewWatcherTakes
              THEN /\ watchers' = Append(watchers, w)
                   /\ chan'[w].len = chan[w].len + 1
                   /\ chan'[w].applied = ApplyUpdate(EmptyView, m)
              ELSE /\ watchers' = watchers
                   /\ chan' = chan
       ]_vars

\* C5 witness: a subscriber was just registered with a snapshot that holds a
\* row already published (clean) and a row not yet published (dirty), while an
\* event waits in the channel
C5_SnapshotWitness ==
    /\ pc = "drain" /\ woken_by = "rpc"
    /\ watchers # <<>>
    /\ chan[watchers[Len(watchers)]].len = 1
    /\ events # <<>>
    /\ \E i \in DOMAIN last_update.task_stats_update :
          i \in DOMAIN task_stats /\ ~task_stats[i].dirty
    /\ \E i \in DOMAIN last_update.resource_stats_update :
          i \in DOMAIN resource_stats /\ resource_stats[i].dirty

NoDirtyRow(t) == \A i \in DOMAIN t : ~t[i].dirty

IdsOf(rows) == {x.id : x \in rows}

\* scenario S3 after its first message: the one watcher has been sent the
\* snapshot, which held tasks 1 and 2, and nothing since
S3SnapshotSent ==
    /\ watchers = <<1>>
    /\ chan[1].len = 1
    /\ DOMAIN chan[1].applied.tasks = {1, 2}

\* the first publish after the snapshot, once task 3 has been reduced
S3NextPublish ==
    /\ pc = "publish" /\ pc' = "cleanup"
    /\ should_send
    /\ S3SnapshotSent
    /\ DOMAIN tasks = {1, 2, 3}

PublishingStep ==
    pc = "publish" /\ pc' = "cleanup" /\ watchers # <<>> /\ should_send

\* the watcher's queue is full, or its receiving end is gone
CannotTake(w) == chan[w].rx_closed \/ chan[w].len >= chan[w].cap

SameRows(t1, t2) ==
    DOMAIN t1 = DOMAIN t2 /\ \A i \in DOMAIN t1 : t1[i].data = t2[i].data

\* C8: at a publish, each watcher whose queue is full or closed leaves
\* watchers in that step and is sent nothing; each other watcher is sent the
\* update and stays, in order; the rows of the tables, the event channel, the
\* rpc channel and the flush signal are as a publish without failure leaves them.
C8_FailedWatchersRemoved ==
    [][PublishingStep =>
        /\ watchers' = SelectSeq(watchers, LAMBDA w : ~CannotTake(w))
        /\ \A w \in Range(watchers) :
              IF CannotTake(w)
              THEN chan'[w] = chan[w]
              ELSE /\ chan'[w].len = chan[w].len + 1
                   /\ chan'[w].applied = ApplyUpdate(chan[w].applied, last_update')
        /\ SameRows(tasks', tasks) /\ SameRows(task_stats', task_stats)
        /\ SameRows(resources', resources) /\ SameRows(resource_stats', resource_stats)
        /\ SameRows(async_ops', async_ops) /\ SameRows(async_op_stats', async_op_stats)
        /\ SameRows(resource_ops', resource_ops)
        /\ NoDirtyRow(tasks') /\ NoDirtyRow(task_stats')
        /\ UNCHANGED <<events, events_closed, rpcs, flushVars, all_metadata>>
       ]_vars

\* C8 witness: a publish has just reached one watcher, and another watcher,
\* whose client never went away, is out of watchers with its queue full
C8_RemovedWitness ==
    /\ JustPublished
    /\ Len(watchers) = 1
    /\ chan[watchers[1]].len >= 1
    /\ \E w \in DOMAIN chan \ Range(watchers) :
          ~chan[w].rx_closed /\ chan[w].len = chan[w].cap
    /\ task_stats # <<>>

\* C9: the queue of a registered watcher grows only in the publish of an
\* iteration the tick woke; an iteration reaches its publish step only once
\* its drain has found the event channel empty; and the publish step of an
\* iteration woken by the flush signal or by a subscription changes no queue,
\* no watcher list and no table.
C9_PublishOnlyOnTick ==
    [][/\ \A w \in Range(watchers) :
             chan'[w].len > chan[w].len =>
                pc = "publish" /\ woken_by = "tick" /\ should_send
       /\ (pc = "drain" /\ pc' = "publish") => events = <<>>
       /\ (pc = "publish" /\ pc' = "cleanup" /\ woken_by \in {"flush", "rpc"}) =>
             /\ ~should_send
             /\ UNCHANGED <<chan, aggVars>>
      ]_vars

\* C9 witness: an iteration woken by the flush signal has drained an event
\* into a row and passed its publish step, and the registered watcher's
\* client, which holds all that was sent to it, has not heard of the row
C9_FlushWitness ==
    /\ pc = "cleanup" /\ woken_by = "flush"
    /\ watchers # <<>>
    /\ \E i \in DOMAIN task_stats :
          /\ task_stats[i].dirty
          /\ \E w \in Range(watchers) : i \notin DOMAIN chan[w].applied.task_stats

\* C10: when the drain finds the event channel closed, or the select finds the
\* rpc channel closed, the loop stops at that step; a stopped loop changes no
\* aggregator state and sends nothing more; and once the event channel is
\* closed the loop does stop.
C10_ClosedChannelTerminates ==
    /\ [][/\ (pc = "drain" /\ events = <<>> /\ events_closed /\ pc' # pc) =>
                pc' = "done" /\ UNCHANGED <<aggVars, chan>>
          /\ (pc = "select" /\ rpcs = <<>> /\ rpcs_closed /\ woken_by' = "rpc") =>
                pc' = "done" /\ UNCHANGED <<aggVars, chan>>
          /\ pc = "done" =>
                /\ pc' = "done"
                /\ UNCHANGED aggVars
                /\ \A w \in DOMAIN chan :
                      /\ chan'[w].len <= chan[w].len
                      /\ chan'[w].applied = chan[w].applied
         ]_vars
    /\ (events_closed ~> pc = "done")

\* C10 witness: a tick iteration with a registered watcher found the event
\* channel closed and stopped with a row still unpublished
C10_TerminatedWitness ==
    /\ pc = "done"
    /\ events_closed /\ ~rpcs_closed
    /\ woken_by = "tick" /\ should_send
    /\ watchers # <<>>
    /\ \E i \in DOMAIN task_stats : task_stats[i].dirty

NoDirtyRowAnywhere ==
    /\ NoDirtyRow(tasks) /\ NoDirtyRow(task_stats)
    /\ NoDirtyRow(resources) /\ NoDirtyRow(resource_stats)
    /\ NoDirtyRow(async_ops) /\ NoDirtyRow(async_op_stats)
    /\ NoDirtyRow(resource_ops)

\* C11: when publish returns, no row of any of the seven tables is dirty,
\* whether the sends to the watchers succeeded or failed.
C11_PublishClearsDirty ==
    JustPublished => NoDirtyRowAnywhere

\* C11 witness: a publish over rows in several tables has just returned and
\* every send of it failed, so that no watcher is left
C11_ClearedWitness ==
    /\ JustPublished
    /\ watchers = <<>>
    /\ last_update.task_stats_update # <<>>
    /\ last_update.new_resource_ops # {}

IsPrefix(a, b) == Len(a) <= Len(b) /\ SubSeq(b, 1, Len(a)) = a

\* C12: every element of new_metadata is an element of all_metadata; no step
\* removes or reorders an element of all_metadata; and new_metadata is empty
\* when publish returns.
C12_MetadataKept ==
    /\ [](Range(new_metadata) \subseteq Range(all_metadata))
    /\ [][/\ IsPrefix(all_metadata, all_metadata')
          /\ PublishingStep => new_metadata' = <<>>]_vars

\* C12 witness: a publish that carried new metadata has just returned
C12_MetadataWitness ==
    /\ JustPublished
    /\ last_update.new_metadata.some
    /\ last_update.new_metadata.metadata # <<>>
    /\ new_metadata = <<>>
    /\ all_metadata # <<>>

\* the stats rows of table t that the step removes
Removed(t, t2) == DOMAIN t \ DOMAIN t2

\* C13: every id of an identity table is an id of its stats table, in every
\* state; and a retention pass that removes a stats row leaves no identity row
\* of that id.
C13_IdentityHasStats ==
    /\ [](/\ DOMAIN tasks \subseteq DOMAIN task_stats
          /\ DOMAIN resources \subseteq DOMAIN resource_stats
          /\ DOMAIN async_ops \subseteq DOMAIN async_op_stats)
    /\ [][RetentionPass =>
            /\ Removed(task_stats, task_stats') \cap DOMAIN tasks' = {}
            /\ Removed(resource_stats, resource_stats') \cap DOMAIN resources' = {}
            /\ Removed(async_op_stats, async_op_stats') \cap DOMAIN async_ops' = {}
         ]_vars

\* C13 witness: task 1, which a client was told of, has been pruned from both
\* task tables while a resource is still held
C13_PrunedWitness ==
    /\ pc = "select"
    /\ 1 \notin DOMAIN tasks /\ 1 \notin DOMAIN task_stats
    /\ \E w \in DOMAIN chan : 1 \in DOMAIN chan[w].applied.tasks
    /\ resources # <<>> /\ resource_stats # <<>>

\* the step that reduces one event of the given type without aborting
Reducing(type) ==
    /\ pc = "drain" /\ events # <<>> /\ events' = Tail(events)
    /\ Head(events).type = type /\ pc' = "drain"

ClosedAtKept(t, t2) ==
    \A id \in DOMAIN t \cap DOMAIN t2 :
        t[id].data.closed_at # None => t2[id].data.closed_at = t[id].data.closed_at

\* C14: reducing a Close event leaves the closed_at of every stats row that
\* was closed already at the value it had.
C14_ClosedAtSetOnce ==
    [][Reducing("Close") =>
         /\ ClosedAtKept(task_stats, task_stats')
         /\ ClosedAtKept(resource_stats, resource_stats')
         /\ ClosedAtKept(async_op_stats, async_op_stats')]_vars

\* the step takes an event of the given type, for a task the aggregator holds,
\* off the channel and reduces it
AboutToReduce(type) ==
    /\ pc = "drain" /\ events # <<>>
    /\ events' = Tail(events)
    /\ Head(events).type = type
    /\ Head(events).id \in DOMAIN task_stats

\* the poll statistics of the task the event at the head of the channel names
HeadPolls == task_stats[Head(events).id].data.poll_stats
HeadPollsAfter == task_stats'[Head(events).id].data.poll_stats

\* C15: reducing an Exit for a task whose current_polls is 0 does not abort
\* the aggregator and leaves the task's poll statistics as they were.
C15_UnmatchedExitIgnored ==
    [][(AboutToReduce("Exit") /\ HeadPolls.current_polls = 0) =>
          /\ pc' = "drain"
          /\ HeadPollsAfter = HeadPolls]_vars

\* C16: reducing the outermost Exit of a task with a timestamp earlier than
\* last_poll_started does not abort the aggregator, and busy_time does not
\* decrease.
C16_EarlyExitSaturates ==
    [][(/\ AboutToReduce("Exit")
        /\ HeadPolls.current_polls = 1
        /\ HeadPolls.last_poll_started # None
        /\ Head(events).at < HeadPolls.last_poll_started) =>
          /\ pc' = "drain"
          /\ HeadPollsAfter.busy_time >= HeadPolls.busy_time]_vars

HeadHistogram == task_stats[Head(events).id].data.poll_times_histogram
HeadHistogramAfter == task_stats'[Head(events).id].data.poll_times_histogram

\* the fields of the poll statistics that only an outermost Exit may change
BusyUnchanged ==
    /\ HeadPollsAfter.busy_time = HeadPolls.busy_time
    /\ HeadPollsAfter.last_poll_ended = HeadPolls.last_poll_ended
    /\ HeadHistogramAfter = HeadHistogram

\* the fields of the poll statistics that only an outermost Enter may change
PollsUnchanged ==
    /\ HeadPollsAfter.polls = HeadPolls.polls
    /\ HeadPollsAfter.first_poll = HeadPolls.first_poll
    /\ HeadPollsAfter.last_poll_started = HeadPolls.last_poll_started

\* scenario S1 has been reduced to its end
S1Reduced ==
    /\ script = <<>> /\ events = <<>>
    /\ 1 \in DOMAIN task_stats
    /\ task_stats[1].data.closed_at = 1000

\* C17: on a held task whose counters do not overflow, an Enter at depth 0
\* counts one poll, records last_poll_started and, once, first_poll; a nested
\* Enter only deepens the nesting; an Exit at depth 1 stamped no earlier than
\* last_poll_started adds exactly (at - last_poll_started) to busy_time and
\* one such sample to the histogram; a nested Exit only lessens the nesting.
\* Scenario S1 ends with polls = 2, busy_time = 400, first_poll = 200,
\* last_poll_ended = 900 and the samples 300 and 100.
C17_OutermostPollsCounted ==
    /\ [][/\ (AboutToReduce("Enter") /\ HeadPolls.current_polls < U64Max) =>
               /\ pc' = "drain"
               /\ HeadPollsAfter.current_polls = HeadPolls.current_polls + 1
               /\ BusyUnchanged
               /\ IF HeadPolls.current_polls = 0
                  THEN /\ HeadPollsAfter.polls = HeadPolls.polls + 1
                       /\ HeadPollsAfter.last_poll_started = Head(events).at
                       /\ HeadPollsAfter.first_poll =
                             IF HeadPolls.first_poll = None
                             THEN Head(events).at ELSE HeadPolls.first_poll
                  ELSE PollsUnchanged
          /\ (/\ AboutToReduce("Exit")
              /\ HeadPolls.current_polls > 1) =>
               /\ pc' = "drain"
               /\ HeadPollsAfter.current_polls = HeadPolls.current_polls - 1
               /\ BusyUnchanged /\ PollsUnchanged
          /\ (/\ AboutToReduce("Exit")
              /\ HeadPolls.current_polls = 1
              /\ HeadPolls.last_poll_started # None
              /\ Head(events).at >= HeadPolls.last_poll_started) =>
               LET elapsed == Head(events).at - HeadPolls.last_poll_started
               IN /\ pc' = "drain"
                  /\ HeadPollsAfter.current_polls = 0
                  /\ HeadPollsAfter.busy_time = HeadPolls.busy_time + elapsed
                  /\ HeadPollsAfter.last_poll_ended = Head(events).at
                  /\ HeadHistogramAfter = HeadHistogram (+) SetToBag({elapsed})
                  /\ PollsUnchanged
         ]_vars
    /\ [](S1Reduced =>
            LET row == task_stats[1].data
            IN /\ row.poll_stats.polls = 2
               /\ row.poll_stats.busy_time = 400
               /\ row.poll_stats.first_poll = 200
               /\ row.poll_stats.last_poll_ended = 900
               /\ row.poll_stats.current_polls = 0
               /\ row.poll_times_histogram = SetToBag({300, 100}))

\* C17 witness: scenario S1 has been reduced to its end, two polls counted
C17_S1Witness ==
    /\ S1Reduced
    /\ pc = "select"
    /\ task_stats[1].data.created_at = 100
    /\ task_stats[1].data.poll_stats.polls = 2

FirstPollKept(t, t2) ==
    \A id \in DOMAIN t \cap DOMAIN t2 :
        t[id].data.poll_stats.first_poll # None =>
            t2[id].data.poll_stats.first_poll = t[id].data.poll_stats.first_poll

\* C18: no step changes the first_poll of a task or async op once it is set.
C18_FirstPollSetOnce ==
    [][/\ FirstPollKept(task_stats, task_stats')
       /\ FirstPollKept(async_op_stats, async_op_stats')]_vars

\* C19: no step changes the task_id or the resource_id of an async op's stats
\* row once it is set.
C19_AsyncOpBindingKept ==
    [][\A id \in DOMAIN async_op_stats \cap DOMAIN async_op_stats' :
          LET old == async_op_stats[id].data
              new == async_op_stats'[id].data
          IN /\ old.task_id # None => new.task_id = old.task_id
             /\ old.resource_id # None => new.resource_id = old.resource_id]_vars

\* the task row the Waker event at the head of the channel names
HeadTask == task_stats[Head(events).id].data
HeadTaskAfter == task_stats'[Head(events).id].data

\* 1 when the operation is one of ops, 0 otherwise
CountIf(op, ops) == IF op \in ops THEN 1 ELSE 0

\* C20: on a held task whose counters do not overflow, a Waker event adds one
\* to waker_clones exactly when it is a Clone, one to waker_drops exactly when
\* it is a Drop or a Wake, and one to wakes exactly when it is a Wake or a
\* WakeByRef; a new row starts with the three counts at 0.
C20_WakerCounts ==
    /\ [][(/\ AboutToReduce("Waker")
           /\ HeadTask.wakes < U64Max
           /\ HeadTask.waker_clones < U64Max
           /\ HeadTask.waker_drops < U64Max) =>
            LET op == Head(events).op
            IN /\ pc' = "drain"
               /\ HeadTaskAfter.waker_clones =
                     HeadTask.waker_clones + CountIf(op, {"Clone"})
               /\ HeadTaskAfter.waker_drops =
                     HeadTask.waker_drops + CountIf(op, {"Drop", "Wake"})
               /\ HeadTaskAfter.wakes =
                     HeadTask.wakes + CountIf(op, {"Wake", "WakeByRef"})
               /\ HeadTaskAfter.last_wake =
                     IF op \in {"Wake", "WakeByRef"}
                     THEN Head(events).at ELSE HeadTask.last_wake
               /\ HeadTaskAfter.poll_stats = HeadTask.poll_stats
         ]_vars
    /\ [][(/\ pc = "drain" /\ events # <<>> /\ events' = Tail(events)
           /\ Head(events).type = "Spawn" /\ pc' = "drain") =>
            /\ HeadTaskAfter.waker_clones = 0
            /\ HeadTaskAfter.waker_drops = 0
            /\ HeadTaskAfter.wakes = 0]_vars

\* C20 witness: scenario S2 has been reduced: a spawn, two clones, a wake and
\* a drop leave two clones, two drops and one wake
C20_S2Witness ==
    /\ produced = 5 /\ events = <<>> /\ script = <<>>
    /\ 1 \in DOMAIN task_stats
    /\ task_stats[1].data.waker_clones = 2
    /\ task_stats[1].data.waker_drops = 2
    /\ task_stats[1].data.wakes = 1
    /\ task_stats[1].data.last_wake # None

\* the step takes the event at the head of the channel and reduces it
ReducingHead(type) ==
    /\ pc = "drain" /\ events # <<>>
    /\ events' = Tail(events)
    /\ Head(events).type = type

\* C21: reducing a Waker event whose id task_stats does not hold goes on to the
\* next event and changes no table, no dirty bit and no watcher list.
C21_OrphanWakerDiscarded ==
    [][(ReducingHead("Waker") /\ Head(events).id \notin DOMAIN task_stats) =>
          /\ pc' = "drain"
          /\ aggVars' = aggVars]_vars

\* C21 witness: the loop is about to reduce a Waker event for a task that a
\* client has seen and retention has evicted since
C21_OrphanWakerWitness ==
    /\ pc = "drain" /\ events # <<>>
    /\ Head(events).type = "Waker"
    /\ Head(events).id \notin DOMAIN task_stats
    /\ \E w \in DOMAIN chan :
          /\ chan[w].kind = "Instrument"
          /\ Head(events).id \in DOMAIN chan[w].applied.task_stats

\* the step reduces a StateUpdate carrying one update for a resource the
\* aggregator holds
ReducingStateUpdate ==
    /\ ReducingHead("ResourceOp")
    /\ Head(events).op_type.tag = "StateUpdate"
    /\ Len(Head(events).op_type.updates) = 1
    /\ Head(events).resource_id \in DOMAIN resource_stats

\* the one update of the StateUpdate at the head of the channel, and the
\* attributes of its resource before and after the step
HeadUpdate == Head(Head(events).op_type.updates)
HeadAttrs == resource_stats[Head(events).resource_id].data.attributes
HeadAttrsAfter == resource_stats'[Head(events).resource_id].data.attributes

\* C22: a numeric update of an attribute the resource lacks inserts it with the
\* update's value; on a numeric attribute of value v (v + u within the integer
\* width for Add) an update of u leaves v + u for Add, v - u for Sub and u for
\* Ovr, and the reducer goes on.
C22_NumericUpdateApplied ==
    [][(/\ ReducingStateUpdate
        /\ HeadUpdate.val.tag = "Numeric"
        /\ HeadUpdate.name \in DOMAIN HeadAttrs =>
              /\ HeadAttrs[HeadUpdate.name].tag = "Numeric"
              /\ HeadUpdate.val.op = "Add" =>
                    HeadAttrs[HeadUpdate.name].val + HeadUpdate.val.val <= U64Max) =>
          LET u == HeadUpdate.val.val
              name == HeadUpdate.name
          IN /\ pc' = "drain"
             /\ name \in DOMAIN HeadAttrsAfter
             /\ HeadAttrsAfter[name].tag = "Numeric"
             /\ HeadAttrsAfter[name].val =
                   IF name \notin DOMAIN HeadAttrs THEN u
                   ELSE CASE HeadUpdate.val.op = "Add" -> HeadAttrs[name].val + u
                          [] HeadUpdate.val.op = "Sub" -> HeadAttrs[name].val - u
                          [] HeadUpdate.val.op = "Ovr" -> u]_vars

\* C23: a StateUpdate whose update is of the other type than the attribute it
\* names aborts the aggregator task and leaves the stored attribute as it was;
\* no step changes the type of an attribute a resource keeps.
C23_TypeMismatchFatal ==
    /\ [][(/\ ReducingStateUpdate
           /\ HeadUpdate.name \in DOMAIN HeadAttrs
           /\ HeadAttrs[HeadUpdate.name].tag # HeadUpdate.val.tag) =>
             /\ pc' = "panicked"
             /\ Head(events).resource_id \in DOMAIN resource_stats'
             /\ HeadAttrsAfter = HeadAttrs]_vars
    /\ [][\A rid \in DOMAIN resource_stats \cap DOMAIN resource_stats' :
             LET old == resource_stats[rid].data.attributes
                 new == resource_stats'[rid].data.attributes
             IN \A name \in DOMAIN old \cap DOMAIN new :
                    new[name].tag = old[name].tag]_vars

\* C23 witness: a build without overflow checks, in which nothing but a type
\* mismatch aborts the task, has aborted on a Text update of the Numeric
\* attribute of resource 1
C23_MismatchWitness ==
    /\ pc = "panicked"
    /\ ~overflow_checks
    /\ 1 \in DOMAIN resource_stats
    /\ "queued" \in DOMAIN resource_stats[1].data.attributes
    /\ resource_stats[1].data.attributes["queued"].tag = "Numeric"

\* the row of resource_ops a ResourceOp event leaves under its call site
ResourceOpRow(event) ==
    [id |-> event.metadata, metadata |-> event.metadata,
     resource_id |-> event.resource_id, op_name |-> event.op_name,
     op_type |-> event.op_type]

\* C30: no step removes a row of resource_ops; a ResourceOp event that is
\* reduced leaves, under its metadata descriptor, the one row carrying its own
\* fields and touches no other row, and no other step changes the table.
C30_ResourceOpsNeverPruned ==
    [][/\ DOMAIN resource_ops \subseteq DOMAIN resource_ops'
       /\ (ReducingHead("ResourceOp") /\ pc' = "drain") =>
             LET m == Head(events).metadata
             IN /\ DOMAIN resource_ops' = DOMAIN resource_ops \cup {m}
                /\ resource_ops'[m].data = ResourceOpRow(Head(events))
                /\ \A i \in DOMAIN resource_ops \ {m} :
                      resource_ops'[i] = resource_ops[i]
       /\ ~ReducingHead("ResourceOp") =>
             /\ DOMAIN resource_ops' = DOMAIN resource_ops
             /\ \A i \in DOMAIN resource_ops :
                   resource_ops'[i].data = resource_ops[i].data]_vars

\* C30 witness: resource 1 was closed and a retention pass has removed it,
\* and the rows of its two call sites are still in resource_ops
C30_KeptAfterEvictionWitness ==
    /\ pc = "select"
    /\ 1 \notin DOMAIN resource_stats
    /\ DOMAIN resource_ops = {1, 2}
    /\ \A i \in DOMAIN resource_ops : resource_ops[i].data.resource_id = 1

\* the step of the loop that services a request for a task's details
DetailsStep ==
    /\ pc = "select" /\ rpcs # <<>>
    /\ Head(rpcs).kind = "TaskDetail"
    /\ rpcs' = Tail(rpcs)

\* the watchers registered for a task's details
Bucket(dw, id) == IF id \in DOMAIN dw THEN dw[id] ELSE <<>>

\* C24: servicing a details request appends its watcher to the bucket of its
\* task exactly when task_stats holds the task, the receiving end went out
\* through reply and the initial details were queued; both happen whenever the
\* task is held, a buffer was asked for and the requester stays; for a task
\* that is not held reply is dropped with nothing sent; in every other case
\* details_watchers is unchanged, and in every case the tables, their dirty
\* bits and the instrument watchers are unchanged.
C24_DetailsWatcherRegistered ==
    [][DetailsStep =>
          LET req == Head(rpcs)
              w == req.wid
              id == req.id
              found == id \in DOMAIN task_stats
              delivered == chan'[w].reply = "sent" /\ chan'[w].len = 1
          IN /\ tableVars' = tableVars
             /\ watchers' = watchers
             /\ IF found /\ delivered
                THEN /\ details_watchers' =
                           [i \in DOMAIN details_watchers \cup {id} |->
                               IF i = id
                               THEN Append(Bucket(details_watchers, id), w)
                               ELSE details_watchers[i]]
                     /\ chan'[w].applied = TaskDetails(id, now, task_stats[id].data)
                ELSE details_watchers' = details_watchers
             /\ ~found => chan'[w].reply = "dropped" /\ chan'[w].len = 0
             /\ (found /\ chan[w].rx_closed) => ~delivered
             /\ (/\ found /\ req.buffer > 0
                 /\ ~chan[w].rx_closed /\ ~chan'[w].rx_closed) => delivered]_vars

\* C24 witness: a second watcher of task 1 has just been appended to the
\* bucket, its receiving end handed over and its initial details queued
C24_RegisteredWitness ==
    /\ pc = "drain" /\ woken_by = "rpc"
    /\ 1 \in DOMAIN details_watchers
    /\ Len(details_watchers[1]) = 2
    /\ LET w == details_watchers[1][2]
       IN /\ chan[w].reply = "sent"
          /\ chan[w].len = 1
          /\ ~chan[w].rx_closed
          /\ chan[w].applied.task_id = 1

\* the watcher's queue has a free slot and its receiving end is there
CanTake(w) == ~CannotTake(w)

\* C28: a publish keeps, in each bucket of a task task_stats holds, the
\* watchers that can take a message, in order, and sends each of them the
\* details of its task; it removes the other watchers, the buckets left empty
\* and the buckets of tasks task_stats no longer holds. Right after a publish
\* every bucket is of a held task, and no bucket is ever empty.
C28_DetailsPrunedAtPublish ==
    /\ [][PublishingStep =>
            /\ DOMAIN details_watchers' \subseteq DOMAIN details_watchers
            /\ \A id \in DOMAIN details_watchers :
                  LET kept == SelectSeq(details_watchers[id], CanTake)
                  IN IF id \in DOMAIN task_stats /\ kept # <<>>
                     THEN /\ id \in DOMAIN details_watchers'
                          /\ details_watchers'[id] = kept
                          /\ \A k \in 1 .. Len(kept) :
                                /\ chan'[kept[k]].len = chan[kept[k]].len + 1
                                /\ chan'[kept[k]].applied =
                                      TaskDetails(id, now, task_stats[id].data)
                     ELSE id \notin DOMAIN details_watchers'
            /\ \A w \in DOMAIN chan :
                  (chan[w].kind = "TaskDetail"
                   /\ \A id \in DOMAIN details_watchers' :
                         w \notin Range(details_watchers'[id]))
                  => chan'[w] = chan[w]]_vars
    /\ [](JustPublished => DOMAIN details_watchers \subseteq DOMAIN task_stats)
    /\ [](\A id \in DOMAIN details_watchers : details_watchers[id] # <<>>)

\* C28 witness: a publish has just emptied the bucket of task 1, whose one
\* watcher could not take the details, and dropped the bucket
C28_PrunedWitness ==
    /\ JustPublished
    /\ 1 \in DOMAIN task_stats
    /\ details_watchers = <<>>
    /\ \E w \in DOMAIN chan :
          /\ chan[w].kind = "TaskDetail"
          /\ chan[w].reply = "sent"
          /\ chan[w].applied.task_id = 1
          /\ chan[w].len = chan[w].cap

\* the details watchers registered in dw
Registered(dw) == UNION {Range(dw[id]) : id \in DOMAIN dw}

\* C29: a registered details watcher is sent a message or removed only in a
\* step that calls publish, which needs an instrument watcher; while there is
\* none, every step keeps every registered details watcher in its bucket and
\* sends it nothing, whatever became of its receiver or its task.
C29_DetailsOnlyAtPublish ==
    /\ [][(\/ \E id \in DOMAIN details_watchers :
                 \/ id \notin DOMAIN details_watchers'
                 \/ ~IsPrefix(details_watchers[id], details_watchers'[id])
           \/ \E w \in Registered(details_watchers) :
                 \/ chan'[w].len > chan[w].len
                 \/ chan'[w].applied # chan[w].applied)
          => PublishingStep]_vars
    /\ [][watchers = <<>> =>
            /\ \A id \in DOMAIN details_watchers :
                  /\ id \in DOMAIN details_watchers'
                  /\ IsPrefix(details_watchers[id], details_watchers'[id])
            /\ \A w \in Registered(details_watchers) :
                  /\ chan'[w].len <= chan[w].len
                  /\ chan'[w].applied = chan[w].applied]_vars

\* C29 witness: a tick has passed the publish with no instrument watcher, and
\* the watcher of task 1, whose receiver is gone and whose task a retention
\* pass has removed, is still registered
C29_StaleWatcherWitness ==
    /\ pc = "cleanup" /\ should_send
    /\ watchers = <<>>
    /\ 1 \in DOMAIN details_watchers
    /\ 1 \notin DOMAIN task_stats
    /\ chan[details_watchers[1][1]].rx_closed

\* the producers that have set the flag and have yet to call notify_one
Notifying == {p \in Producers : trig_pc[p] = "notify"}

\* the step in which producer p calls notify_one
NotifyStep(p) == trig_pc[p] = "notify" /\ trig_pc'[p] = "idle"

\* C25: a producer calls notify_one only while the flag is set, no permit is
\* stored, the loop has not taken a wake it has yet to answer by clearing the
\* flag, and no other producer is about to notify: no second notify_one comes
\* between two clears. While the flag is clear no producer is inside trigger
\* and no wake is left, and the step that sets the flag takes its producer to
\* its notify_one.
C25_TriggersCollapse ==
    /\ [][\A p \in Producers :
             NotifyStep(p) =>
                /\ triggered /\ ~permit /\ pc # "flushed"
                /\ Notifying = {p}
                /\ permit']_vars
    /\ [](~triggered => (Notifying = {} /\ ~permit /\ pc # "flushed"))
    /\ [][(~triggered /\ triggered') =>
             \E p \in Producers :
                 /\ trig_pc[p] = "idle"
                 /\ trig_pc' = [trig_pc EXCEPT ![p] = "notify"]]_vars
    /\ [][(triggered /\ ~triggered') => (pc = "flushed" /\ pc' = "drain")]_vars

\* C25 witness: the loop has cleared the flag, and a producer has set it again
\* and stored a new permit while the loop drains
C25_RearmedWitness ==
    /\ woken_by = "flush" /\ pc = "drain"
    /\ triggered /\ permit

\* C26: while the flag is set, a producer is about to call notify_one, or the
\* permit is stored, or the loop has taken the wake and not started its drain;
\* under fair scheduling the flag being set leads to the loop taking the wake,
\* and the loop taking the wake leads to the start of a drain.
C26_NoLostFlush ==
    /\ [](triggered => (Notifying # {} \/ permit \/ pc = "flushed"))
    /\ (triggered ~> pc = "flushed")
    /\ (pc = "flushed" ~> (pc = "drain" /\ woken_by = "flush"))

\* C26 witness: a producer that lost the compare-and-set while the wake of the
\* winner was still stored sees the loop start the drain of that wake: the
\* flag is clear again, the event is still in the channel
C26_DrainAfterTriggerWitness ==
    /\ pc = "drain" /\ woken_by = "flush"
    /\ ~triggered /\ ~permit
    /\ events # <<>>

\* every row of t2 that is new or differs from its row in t is dirty
RowsLeftDirty(t, t2) ==
    \A id \in DOMAIN t2 :
        (id \notin DOMAIN t \/ t2[id].data # t[id].data) => t2[id].dirty

\* the step cleans the rows of t only in a publish whose delta carries them,
\* with the value they are left with
CleanedInDelta(t, t2, delta, wire) ==
    \A id \in DOMAIN t \cap DOMAIN t2 :
        (t[id].dirty /\ ~t2[id].dirty) =>
            /\ PublishingStep
            /\ id \in DOMAIN delta
            /\ t2[id].data = t[id].data
            /\ delta[id] = wire[id]

\* C27: every step leaves dirty each row it creates or changes, in all seven
\* tables; a stats row loses its dirty bit only in a publish whose delta
\* carries the row as it is; and the step that serves a details request, which
\* reads task_stats through get(), changes no row and no bit.
C27_ChangedRowsDirty ==
    [][/\ RowsLeftDirty(tasks, tasks')
       /\ RowsLeftDirty(task_stats, task_stats')
       /\ RowsLeftDirty(resources, resources')
       /\ RowsLeftDirty(resource_stats, resource_stats')
       /\ RowsLeftDirty(async_ops, async_ops')
       /\ RowsLeftDirty(async_op_stats, async_op_stats')
       /\ RowsLeftDirty(resource_ops, resource_ops')
       /\ CleanedInDelta(task_stats, task_stats', last_update'.task_stats_update,
             [i \in DOMAIN task_stats |-> TaskStats_to_proto(task_stats[i].data)])
       /\ CleanedInDelta(resource_stats, resource_stats',
             last_update'.resource_stats_update,
             [i \in DOMAIN resource_stats |->
                 ResourceStats_to_proto(resource_stats[i].data)])
       /\ CleanedInDelta(async_op_stats, async_op_stats',
             last_update'.async_op_stats_update,
             [i \in DOMAIN async_op_stats |->
                 AsyncOpStats_to_proto(async_op_stats[i].data)])
       /\ DetailsStep => tableVars' = tableVars]_vars

\* C27 witness: the client was sent the snapshot and a publish, and the stats
\* row of task 1 has changed since: it is dirty and differs from what the
\* client holds
C27_ChangedSincePublishWitness ==
    /\ \E w \in DOMAIN chan :
          /\ chan[w].kind = "Instrument"
          /\ chan[w].len = MaxCap
          /\ 1 \in DOMAIN chan[w].applied.task_stats
          /\ 1 \in DOMAIN task_stats
          /\ task_stats[1].dirty
          /\ chan[w].applied.task_stats[1] # TaskStats_to_proto(task_stats[1].data)

====
